---- MODULE Spec2Model ----
(***************************************************************************)
(* AetheroWeb-v1: the chat thread store (browser localStorage), the        *)
(* AgentChat component (one instance per browser tab), the chat gateway    *)
(* and the memory-log sink.                                                *)
(*                                                                         *)
(* One step of the model is one run-to-completion segment of JavaScript:   *)
(* the code between two network awaits. The awaits on the helpers of        *)
(* threadManager.ts resolve in microtasks, so no event of the same tab     *)
(* runs in between; every segment touches localStorage at most once,       *)
(* except the mount effect, which is split at its two accesses.            *)
(***************************************************************************)
EXTENDS Integers, Sequences, FiniteSets, Bags, TLC

\* ---------------------------------------------------------------- bounds
MaxTime == 3             \* Spec: Date.now() ranges over 1..MaxTime
MaxSends == 3            \* Spec: handleSend invocations
MaxCreates == 1          \* Spec: handleCreateThread invocations
MaxBroadcastTime == 2    \* SpecBroadcast: Date.now() ranges over 1..MaxBroadcastTime
MaxBroadcastSends == 2   \* SpecBroadcast: handleSend invocations
MaxTabTime == 2          \* SpecTabs: Date.now() ranges over 1..MaxTabTime
MaxTabSends == 2         \* SpecTabs: handleSend invocations, both tabs together
MaxStoreTime == 2        \* SpecStore: Date.now() ranges over 1..MaxStoreTime
MaxLen == 2              \* SpecStore: length of a message list handed to the store
MaxAppOps == 3           \* SpecApp: clock ticks, sends, thread creations, analyses in
                         \* flight and exports, together
MaxMountTime == 4        \* SpecMount: Date.now() ranges over 3..MaxMountTime
MaxMountSends == 1       \* SpecMount: handleSend invocations
MaxFullTime == 2         \* SpecFull: Date.now() ranges over 1..MaxFullTime
MaxFullSends == 1        \* SpecFull: handleSend invocations
MaxFullCreates == 1      \* SpecFull: handleCreateThread invocations
MaxMountCreates == 1     \* SpecMount: handleCreateThread invocations
MaxPairs == 2            \* SpecAnalysis: length of an analysed list of pairs
MaxExport == 3           \* SpecExport: length of an exported message list
MaxContext == 2          \* SpecGateway: length of the context of a chat request
MaxDays == 2             \* SpecLog: the server's UTC day ranges over 1..MaxDays
MaxPosts == 2            \* SpecLog: requests to /api/memory-log
MaxLogOps == 3           \* SpecLog: midnights, log requests, the audit, file system
                         \* calls that fail and writes that come short, together

Tabs == {1, 2}      \* browser tabs sharing one localStorage
Prompts == {"p"}    \* prompts AgentInput lets through (prompt.trim() non-empty)
PickedAgents == {"Premier", "Frontinus"}   \* the agents the user picks in AgentSwitcher

\* ------------------------------------------------------- program constants
AGENTS == <<"Premier", "Frontinus", "Lucius", "Implementus", "Archivus">>
THREAD_PREFIX == "aeth_chat_thread_"
SYSTEM_PREAMBLE ==
    "You are Premier, the primary agent of AetheroOS, orchestrating Signal Root with introspective reasoning in ASL."

\* ----------------------------------------------------------------- helpers
Min(S) == CHOOSE x \in S : \A y \in S : x <= y

Range(s) == {s[i] : i \in 1..Len(s)}

Last(seq) == seq[Len(seq)]

SeqMap(F(_), s) == [i \in 1..Len(s) |-> F(s[i])]

IsPrefixOf(a, b) == Len(a) <= Len(b) /\ SubSeq(b, 1, Len(a)) = a

\* String.prototype.startsWith
startsWith(s, p) == Len(s) >= Len(p) /\ SubSeq(s, 1, Len(p)) = p

\* every enumeration of a finite set, each element once
RECURSIVE Enumerations(_)
Enumerations(S) ==
    IF S = {} THEN {<<>>}
    ELSE UNION {{<<x>> \o e : e \in Enumerations(S \ {x})} : x \in S}

\* ------------------------------------------------------------------- JSON
\* A Message is a record whose domain holds the properties it has:
\*   user : [role, content, timestamp]     agent : [role, agentName, content, timestamp]
\* JSON text of a message list: per message the sequence of its
\* <<property, text>> pairs in property order, numbers as digit strings.
MessageKeys == <<"role", "agentName", "content", "timestamp">>

NumberKeys == {"timestamp"}

RECURSIVE SelectKeys(_, _)
SelectKeys(keys, m) ==
    IF keys = <<>> THEN <<>>
    ELSE LET k == Head(keys)
             v == IF k \in NumberKeys THEN ToString(m[k]) ELSE m[k]
         IN (IF k \in DOMAIN m THEN <<<<k, v>>>> ELSE <<>>) \o SelectKeys(Tail(keys), m)

\* variant: the optional timestamp is left out of the JSON text
stringifyMessage_noTimestamp(m) == SelectKeys(<<"role", "agentName", "content">>, m)

stringifyMessage(m) == SelectKeys(MessageKeys, m)

JSONstringify(messages) == SeqMap(stringifyMessage, messages)

\* the numbers of the model are the clock's: digits only
RECURSIVE parseNumber(_)
parseNumber(s) ==
    LET digit(c) == CHOOSE d \in 0..9 : ToString(d) = c
    IN  IF Len(s) = 1 THEN digit(s)
        ELSE 10 * parseNumber(SubSeq(s, 1, Len(s) - 1)) + digit(SubSeq(s, Len(s), Len(s)))

parseMessage(pairs) ==
    LET keyOf(k) == CHOOSE i \in 1..Len(pairs) : pairs[i][1] = k
    IN  [k \in {pairs[i][1] : i \in 1..Len(pairs)} |->
            IF k \in NumberKeys THEN parseNumber(pairs[keyOf(k)][2])
            ELSE pairs[keyOf(k)][2]]

JSONparse(text) == SeqMap(parseMessage, text)

\* ------------------------------------------------- threadManager (data.ts)
\* localStorage is a function from the keys present to their string values.
setItem(store, key, value) ==
    [k \in DOMAIN store \cup {key} |-> IF k = key THEN value ELSE store[k]]

\* variant: the id is made but nothing is stored under it
createNewThreadId_noInit(store, time) ==
    [threadId |-> THREAD_PREFIX \o ToString(time), store |-> store]

\* variant: the new thread takes the place of the stored ones
createNewThreadId_replace(store, time) ==
    LET threadId == THREAD_PREFIX \o ToString(time)
        others == [k \in {key \in DOMAIN store : ~startsWith(key, THREAD_PREFIX)} |-> store[k]]
    IN  [threadId |-> threadId, store |-> setItem(others, threadId, JSONstringify(<<>>))]

\* the result of createNewThreadId: the id returned and the store it leaves
createNewThreadId(store, time) ==
    LET threadId == THREAD_PREFIX \o ToString(time)
    IN  [threadId |-> threadId, store |-> setItem(store, threadId, JSONstringify(<<>>))]

\* variant: the messages are added to the list already stored
saveMessagesToThread_merge(store, threadId, messages) ==
    IF threadId = "" \/ ~startsWith(threadId, THREAD_PREFIX) THEN store
    ELSE setItem(store, threadId,
                 JSONstringify((IF threadId \in DOMAIN store THEN JSONparse(store[threadId])
                                ELSE <<>>) \o messages))

SAVE_FAILED == "Failed to save messages to localStorage:"

GET_FAILED == "Failed to retrieve or parse messages from localStorage:"

\* JSON.parse takes a text that is the JSON of a list of objects; on any other
\* text it throws SyntaxError
IsJSON(text) ==
    \A i \in 1..Len(text) : \A j \in 1..Len(text[i]) : Len(text[i][j]) = 2

\* a stored text that is not JSON
CorruptText == <<<<<<"{">>>>>>

\* the store saveMessagesToThread leaves
\* variant: only the empty id is turned away
saveMessagesToThread_anyId(store, threadId, messages) ==
    IF threadId = "" THEN store
    ELSE setItem(store, threadId, JSONstringify(messages))

saveMessagesToThread(store, threadId, messages) ==
    IF threadId = "" \/ ~startsWith(threadId, THREAD_PREFIX) THEN store
    ELSE setItem(store, threadId, JSONstringify(messages))

getMessagesForThread(store, threadId) ==
    IF threadId = "" \/ ~startsWith(threadId, THREAD_PREFIX) THEN <<>>
    ELSE IF threadId \notin DOMAIN store THEN <<>>
    ELSE IF ~IsJSON(store[threadId]) THEN <<>>
    ELSE JSONparse(store[threadId])

\* what getMessagesForThread writes with console.error
getMessagesForThreadErrors(store, threadId) ==
    IF /\ threadId # "" /\ startsWith(threadId, THREAD_PREFIX)
       /\ threadId \in DOMAIN store /\ ~IsJSON(store[threadId])
    THEN {GET_FAILED} ELSE {}

\* localStorage.setItem on a store that is full throws QuotaExceededError and
\* stores nothing
setItemOutcome(store, key, value, full) ==
    IF full THEN [threw |-> TRUE, store |-> store]
    ELSE [threw |-> FALSE, store |-> setItem(store, key, value)]

\* createNewThreadId on a store that may be full: how the call ends, the id it
\* returns when it returns, and the store it leaves. Line 117 is in no try.
createNewThreadIdOutcome(store, time, full) ==
    LET threadId == THREAD_PREFIX \o ToString(time)
        w == setItemOutcome(store, threadId, JSONstringify(<<>>), full)
    IN  IF w.threw THEN [raised |-> TRUE, threadId |-> "", store |-> w.store]
        ELSE [raised |-> FALSE, threadId |-> threadId,
              store |-> createNewThreadId(store, time).store]

\* saveMessagesToThread on a store that may be full: the catch of lines 125-127
saveMessagesToThreadOutcome(store, threadId, messages, full) ==
    IF threadId = "" \/ ~startsWith(threadId, THREAD_PREFIX)
    THEN [raised |-> FALSE, errors |-> {}, store |-> store]
    ELSE LET w == setItemOutcome(store, threadId, JSONstringify(messages), full)
         IN  IF w.threw THEN [raised |-> FALSE, errors |-> {SAVE_FAILED}, store |-> w.store]
             ELSE [raised |-> FALSE, errors |-> {},
                   store |-> saveMessagesToThread(store, threadId, messages)]

\* variant: the loop starts at the second key
getAllThreadIds_fromSecond(keyOrder) ==
    SelectSeq(IF keyOrder = <<>> THEN <<>> ELSE Tail(keyOrder),
              LAMBDA key : startsWith(key, THREAD_PREFIX))

\* keyOrder: the order in which localStorage.key(i) lists the keys
getAllThreadIds(keyOrder) ==
    SelectSeq(keyOrder, LAMBDA key : startsWith(key, THREAD_PREFIX))

\* String.prototype.replace with a string pattern: the first occurrence
replace(s, pattern, replacement) ==
    LET I == {i \in 1..(Len(s) - Len(pattern) + 1) :
                 SubSeq(s, i, i + Len(pattern) - 1) = pattern}
    IN  IF I = {} THEN s
        ELSE SubSeq(s, 1, Min(I) - 1) \o replacement
                \o SubSeq(s, Min(I) + Len(pattern), Len(s))

\* Array.prototype.join
RECURSIVE join(_, _)
join(parts, separator) ==
    IF parts = <<>> THEN ""
    ELSE IF Len(parts) = 1 THEN parts[1]
    ELSE parts[1] \o separator \o join(Tail(parts), separator)

EXPORT_SEPARATOR == "\n---\n\n"

\* formatThreadForExport, lines 156-158: `msg.agentName || 'Agent Response'`
exportHeading(msg) ==
    IF msg.role = "user" THEN "User Input"
    ELSE IF "agentName" \in DOMAIN msg /\ msg.agentName # "" THEN msg.agentName
    ELSE "Agent Response"

exportSection(msg) == "### " \o exportHeading(msg) \o "\n" \o msg.content \o "\n"

exportTitle(threadId) == "# Chat Thread Log: " \o replace(threadId, THREAD_PREFIX, "") \o "\n\n"

\* variant: only the messages the chat view shows are exported
formatThreadForExport_shown(threadId, messages) ==
    exportTitle(threadId)
        \o join(SeqMap(exportSection,
                        SelectSeq(messages, LAMBDA m : m.role \in {"user", "agent"})),
                 EXPORT_SEPARATOR)

formatThreadForExport(threadId, messages) ==
    exportTitle(threadId) \o join(SeqMap(exportSection, messages), EXPORT_SEPARATOR)

\* ------------------------------------------- chat gateway (part_002, POST)
\* variant: the preamble is sent only with a context that has entries
GatewayMessages_bareWhenEmpty(prompt, context) ==
    (IF context = <<>> THEN <<>> ELSE <<[role |-> "system", content |-> SYSTEM_PREAMBLE]>>)
        \o context
        \o <<[role |-> "user", content |-> prompt]>>

\* the message list sent upstream
GatewayMessages(prompt, context) ==
    <<[role |-> "system", content |-> SYSTEM_PREAMBLE]>>
        \o context
        \o <<[role |-> "user", content |-> prompt]>>

\* `context || []`: the context of a request body, which may have none
ContextOf(body) == IF "context" \in DOMAIN body THEN body.context ELSE <<>>

\* variant: the text of the last choice is returned
GatewayContent_last(response) ==
    IF Len(response.choices) = 0 THEN ""
    ELSE IF "message" \notin DOMAIN Last(response.choices) THEN ""
    ELSE IF "content" \notin DOMAIN Last(response.choices).message THEN ""
    ELSE Last(response.choices).message.content

\* An upstream completion: choices is a sequence of records; a choice may lack
\* "message" and a message may lack "content" (undefined or null).
\* response.choices[0]?.message?.content ?? ''
GatewayContent(response) ==
    IF Len(response.choices) = 0 THEN ""
    ELSE IF "message" \notin DOMAIN response.choices[1] THEN ""
    ELSE IF "content" \notin DOMAIN response.choices[1].message THEN ""
    ELSE response.choices[1].message.content

\* the completions the provider answers with while the component runs
Completions == { [choices |-> <<[message |-> [role |-> "assistant", content |-> "r"]]>>] }

\* ------------------------------------------------ memory log (part_004)
\* the record logMemory composes; aslSummary is undefined in handleSend and
\* JSON.stringify leaves an undefined property out
logEntry(prompt, response, threadId, agentName, time) ==
    [threadId |-> threadId, agentName |-> agentName, prompt |-> prompt,
     response |-> response, timestamp |-> time]

\* variant: the character at end is taken too
slice_inclusive(s, start, end) == SubSeq(s, start + 1, Min({end + 1, Len(s)}))

\* String.prototype.slice with 0 <= start <= end
slice(s, start, end) == SubSeq(s, start + 1, Min({end, Len(s)}))

\* JSON.stringify of a string: the quote, the backslash and the control
\* characters are escaped. Of the control characters a string of this module
\* can hold the line feed, the tab, the carriage return and the form feed; the
\* others (backspace as \b, the rest as \u00XX) are outside its alphabet.
RECURSIVE escape(_)
escape(s) ==
    IF s = "" THEN ""
    ELSE LET c == SubSeq(s, 1, 1)
         IN (IF c = "\"" THEN "\\\""
             ELSE IF c = "\\" THEN "\\\\"
             ELSE IF c = "\n" THEN "\\n"
             ELSE IF c = "\t" THEN "\\t"
             ELSE IF c = "\r" THEN "\\r"
             ELSE IF c = "\f" THEN "\\f"
             ELSE c) \o escape(SubSeq(s, 2, Len(s)))

quote(s) == "\"" \o escape(s) \o "\""

\* runIntrospectiveAnalysis, lines 3-7: the summary of one pair, as JSON text
summaryEntry(pair) ==
    "{\"intent\":" \o quote("Analyzed: " \o slice(pair.prompt, 0, 50) \o "...")
      \o ",\"reasoning\":" \o quote("Response: " \o slice(pair.response, 0, 50) \o "...")
      \o ",\"aslOutput\":{\"module\":\"PremierChat\",\"action\":\"reflect\","
      \o "\"purpose\":\"Introspective synthesis\"}}"

runIntrospectiveAnalysis(thread) == "[" \o join(SeqMap(summaryEntry, thread), ",") \o "]"

\* the record logMemory composes when it is given an aslSummary
logEntryASL(aslSummary, threadId, agentName, time) ==
    [threadId |-> threadId, agentName |-> agentName, prompt |-> "", response |-> "",
     aslSummary |-> aslSummary, timestamp |-> time]

LOG_FAILED == "Failed to log memory:"

\* variant: no try/catch around the fetch
logMemory_noCatch(fetchOutcome) == [promise |-> fetchOutcome, errors |-> {}]

\* logMemory once its fetch has settled: how its own promise settles and what
\* it writes with console.error; the try/catch swallows a rejected fetch
logMemory(fetchOutcome) ==
    [promise |-> "resolved",
     errors |-> IF fetchOutcome = "rejected" THEN {LOG_FAILED} ELSE {}]

\* -------------------------------------------------------------- the state
VARIABLES
    now,             \* Date.now()
    localStorage,    \* the browser-local store shared by the tabs
    console,         \* console[t]: the distinct console.error lines of tab t
    heap,            \* heap[t]: the message arrays of tab t, by reference
    mount,           \* mount[t]: the mount effect: pc and its local ids
    activeAgent,     \* useState: activeAgent
    activeThreadId,  \* useState: activeThreadId
    threads,         \* useState: threads, a sequence of [id, ref]
    loading,         \* useState: loading
    send,            \* send[t]: the handleSend invocation and its locals
    chatReqs,        \* chatReqs[t]: POSTs to /api/chat-with-premier in flight
    logReqs,         \* logReqs[t]: POSTs to /api/memory-log of handleSend in flight
    analysisReqs,    \* analysisReqs[t]: the bag of those of handleAnalysis in flight
    nSends,          \* handleSend invocations so far
    nCreates,        \* handleCreateThread invocations so far
    call,            \* the last direct call of a function or of a server route
    server           \* the server: its UTC day, its log directory and log requests

tabVars == <<console, heap, mount, activeAgent, activeThreadId, threads, loading,
             send, chatReqs, logReqs, analysisReqs, nSends, nCreates>>

vars == <<now, localStorage, call, server, tabVars>>

\* a thread object {id, messages}: its id and the reference of its array
Thread(id, ref) == [id |-> id, ref |-> ref]

Undefined == Thread("", 0)

IdleSend ==
    [pc |-> "idle", prompt |-> "", agents |-> <<>>, k |-> 0, tid |-> "",
     newThreads |-> <<>>, thread |-> Undefined]

RejectedSend == [IdleSend EXCEPT !.pc = "rejected"]

NoCall == [op |-> "none"]

\* the server with nothing logged and no request in hand
IdleServer == [day |-> 1, dirs |-> {}, files |-> <<>>, reqs |-> <<>>]

\* Array.prototype.find on t.id === id
find(list, id) ==
    LET I == {i \in 1..Len(list) : list[i].id = id}
    IN  IF I = {} THEN Undefined ELSE list[Min(I)]

NewRef(h) == Min({r \in 1..(Cardinality(DOMAIN h) + 1) : r \notin DOMAIN h})

\* garbage collection: the arrays no list and no local refers to are gone
Collect(h, entries) == [r \in DOMAIN h \cap {e.ref : e \in entries} |-> h[r]]

Messages(t, thread) == heap[t][thread.ref]

Init ==
    /\ now = 1
    /\ localStorage = <<>>
    /\ console = [t \in Tabs |-> {}]
    /\ heap = [t \in Tabs |-> <<>>]
    /\ mount = [t \in Tabs |-> [pc |-> "init", ids |-> <<>>]]
    /\ activeAgent = [t \in Tabs |-> AGENTS[1]]
    /\ activeThreadId = [t \in Tabs |-> ""]
    /\ threads = [t \in Tabs |-> <<>>]
    /\ loading = [t \in Tabs |-> FALSE]
    /\ send = [t \in Tabs |-> IdleSend]
    /\ chatReqs = [t \in Tabs |-> {}]
    /\ logReqs = [t \in Tabs |-> {}]
    /\ analysisReqs = [t \in Tabs |-> EmptyBag]
    /\ nSends = 0
    /\ nCreates = 0
    /\ call = NoCall
    /\ server = IdleServer

\* time passes, up to limit
Tick(limit) ==
    /\ now < limit
    /\ now' = now + 1
    /\ UNCHANGED <<server, localStorage, call, tabVars>>

\* what a second Date.now() of one turn can return: the time has stayed or
\* has passed, up to limit
ClockReads(limit) == {now} \cup {c \in {now + 1} : c <= limit}

\* --------------------------------------------------- AgentChat, per tab
\* useEffect, line 30: const ids = await getAllThreadIds()
useEffect_scan(t) ==
    /\ mount[t].pc = "init"
    /\ \E keyOrder \in Enumerations(DOMAIN localStorage) :
          mount' = [mount EXCEPT ![t] = [pc |-> "scanned", ids |-> getAllThreadIds(keyOrder)]]
    /\ UNCHANGED <<server, now, localStorage, call, console, heap, activeAgent, activeThreadId,
                   threads, loading, send, chatReqs, logReqs, analysisReqs, nSends, nCreates>>

\* variant: the mount effect makes a new thread whatever it has read
useEffect_finish_alwaysNew(t, full) ==
    /\ mount[t].pc = "scanned"
    /\ LET c == createNewThreadId(localStorage, now) IN
            /\ localStorage' = c.store
            /\ activeThreadId' = [activeThreadId EXCEPT ![t] = c.threadId]
            /\ threads' = [threads EXCEPT ![t] = <<Thread(c.threadId, 1)>>]
            /\ heap' = [heap EXCEPT ![t] = (1 :> <<>>)]
    /\ mount' = [mount EXCEPT ![t] = [pc |-> "mounted", ids |-> <<>>]]
    /\ UNCHANGED <<server, now, call, console, activeAgent, loading, send, chatReqs, logReqs,
                   analysisReqs, nSends, nCreates>>

\* useEffect, lines 31-39. full: the store has no room. Without a thread id
\* createNewThreadId is called, and on a full store its setItem throws (data.ts
\* line 117 is in no try): the promise of the effect is rejected, nothing
\* catches it, and setActiveThreadId and setThreads are not reached. With thread
\* ids every thread is read with getMessagesForThread, which writes a console
\* line for each stored text it cannot parse.
useEffect_finish(t, full) ==
    /\ mount[t].pc = "scanned"
    /\ LET ids == mount[t].ids IN
       IF Len(ids) = 0
       THEN LET c == createNewThreadIdOutcome(localStorage, now, full) IN
            /\ localStorage' = c.store
            /\ IF c.raised
               THEN UNCHANGED <<activeThreadId, threads, heap>>
               ELSE /\ activeThreadId' = [activeThreadId EXCEPT ![t] = c.threadId]
                    /\ threads' = [threads EXCEPT ![t] = <<Thread(c.threadId, 1)>>]
                    /\ heap' = [heap EXCEPT ![t] = (1 :> <<>>)]
            /\ UNCHANGED console
       ELSE /\ localStorage' = localStorage
            /\ activeThreadId' = [activeThreadId EXCEPT ![t] = ids[1]]
            /\ threads' = [threads EXCEPT ![t] = [i \in 1..Len(ids) |-> Thread(ids[i], i)]]
            /\ heap' = [heap EXCEPT ![t] =
                          [i \in 1..Len(ids) |-> getMessagesForThread(localStorage, ids[i])]]
            /\ console' = [console EXCEPT ![t] =
                             @ \cup UNION {getMessagesForThreadErrors(localStorage, ids[i]) :
                                              i \in 1..Len(ids)}]
    /\ mount' = [mount EXCEPT ![t] = [pc |-> "mounted", ids |-> <<>>]]
    /\ UNCHANGED <<server, now, call, activeAgent, loading, send, chatReqs, logReqs,
                   analysisReqs, nSends, nCreates>>

\* AgentSwitcher: onSelect={setActiveAgent}
setActiveAgent(t, agent) ==
    /\ mount[t].pc = "mounted"
    /\ agent # activeAgent[t]
    /\ activeAgent' = [activeAgent EXCEPT ![t] = agent]
    /\ UNCHANGED <<server, now, localStorage, call, console, heap, mount, activeThreadId, threads,
                   loading, send, chatReqs, logReqs, analysisReqs, nSends, nCreates>>

\* handleSelectThread: ThreadManager shows one button per entry of threads
handleSelectThread(t, id) ==
    /\ mount[t].pc = "mounted"
    /\ id \in {e.id : e \in Range(threads[t])}
    /\ id # activeThreadId[t]
    /\ activeThreadId' = [activeThreadId EXCEPT ![t] = id]
    /\ UNCHANGED <<server, now, localStorage, call, console, heap, mount, activeAgent, threads,
                   loading, send, chatReqs, logReqs, analysisReqs, nSends, nCreates>>

\* handleCreateThread, lines 80-84. full: the store has no room; setItem in
\* createNewThreadId throws, the handler is rejected at line 81 and neither
\* setThreads nor setActiveThreadId is reached.
handleCreateThread(t, full) ==
    /\ mount[t].pc = "mounted"
    /\ nCreates' = nCreates + 1
    /\ LET c == createNewThreadIdOutcome(localStorage, now, full)
           r == NewRef(heap[t])
       IN /\ localStorage' = c.store
          /\ IF c.raised
             THEN UNCHANGED <<threads, activeThreadId, heap>>
             ELSE /\ threads' = [threads EXCEPT ![t] = <<Thread(c.threadId, r)>> \o @]
                  /\ activeThreadId' = [activeThreadId EXCEPT ![t] = c.threadId]
                  /\ heap' = [heap EXCEPT ![t] = @ @@ (r :> <<>>)]
    /\ UNCHANGED <<server, now, call, console, mount, activeAgent, loading, send, chatReqs,
                   logReqs, analysisReqs, nSends>>

\* handleSend, lines 56-61
contextEntry(m) ==
    [role |-> IF m.role = "user" THEN "user" ELSE "assistant", content |-> m.content]

\* handleSend, lines 52-67: one iteration of the loop up to its fetch.
\* h is the tab's heap; the result is the heap, the thread object and the request.
IterationStart(h, newThreads, tid, prompt, agent, time) ==
    LET found == find(newThreads, tid)
        r == IF found # Undefined THEN found.ref ELSE NewRef(h)
        h1 == IF found # Undefined THEN h ELSE h @@ (r :> <<>>)
        userMsg == [role |-> "user", content |-> prompt, timestamp |-> time]
        h2 == [h1 EXCEPT ![r] = Append(@, userMsg)]
        context == SeqMap(contextEntry,
                          SelectSeq(h2[r], LAMBDA m : m.role \in {"user", "agent", "assistant"}))
    IN  [heap |-> h2,
         thread |-> Thread(tid, r),
         request |-> [prompt |-> prompt, context |-> context, agentName |-> agent]]

\* variant: the requests of all agents are issued at once, none awaited first
handleSend_concurrent(t, prompt, broadcast) ==
    /\ mount[t].pc = "mounted"
    /\ ~loading[t]
    /\ nSends' = nSends + 1
    /\ loading' = [loading EXCEPT ![t] = TRUE]
    /\ LET agentsToSend == IF broadcast THEN AGENTS ELSE <<activeAgent[t]>>
           newThreads == threads[t]
           it == IterationStart(heap[t], newThreads, activeThreadId[t], prompt,
                                agentsToSend[1], now)
       IN /\ heap' = [heap EXCEPT ![t] = it.heap]
          /\ send' = [send EXCEPT ![t] =
                        [pc |-> "awaitChat", prompt |-> prompt, agents |-> agentsToSend,
                         k |-> 1, tid |-> activeThreadId[t], newThreads |-> newThreads,
                         thread |-> it.thread]]
          /\ chatReqs' = [chatReqs EXCEPT ![t] =
                            @ \cup {[it.request EXCEPT !.agentName = agent] :
                                       agent \in Range(agentsToSend)}]
    /\ UNCHANGED <<server, now, localStorage, call, console, mount, activeAgent, activeThreadId,
                   threads, logReqs, analysisReqs, nCreates>>

\* variant: the input is not disabled while loading
handleSend_reentrant(t, prompt, broadcast) ==
    /\ mount[t].pc = "mounted"
    /\ nSends' = nSends + 1
    /\ loading' = [loading EXCEPT ![t] = TRUE]
    /\ LET agentsToSend == IF broadcast THEN AGENTS ELSE <<activeAgent[t]>>
           newThreads == threads[t]
           it == IterationStart(heap[t], newThreads, activeThreadId[t], prompt,
                                agentsToSend[1], now)
       IN /\ heap' = [heap EXCEPT ![t] = it.heap]
          /\ send' = [send EXCEPT ![t] =
                        [pc |-> "awaitChat", prompt |-> prompt, agents |-> agentsToSend,
                         k |-> 1, tid |-> activeThreadId[t], newThreads |-> newThreads,
                         thread |-> it.thread]]
          /\ chatReqs' = [chatReqs EXCEPT ![t] = @ \cup {it.request}]
    /\ UNCHANGED <<server, now, localStorage, call, console, mount, activeAgent, activeThreadId,
                   threads, logReqs, analysisReqs, nCreates>>

\* handleSend, lines 47-67: up to the first await of fetch.
\* AgentInput is disabled while loading, and lets only a non-blank prompt through.
handleSend(t, prompt, broadcast) ==
    /\ mount[t].pc = "mounted"
    /\ ~loading[t]
    /\ nSends' = nSends + 1
    /\ loading' = [loading EXCEPT ![t] = TRUE]
    /\ LET agentsToSend == IF broadcast THEN AGENTS ELSE <<activeAgent[t]>>
           newThreads == threads[t]
           it == IterationStart(heap[t], newThreads, activeThreadId[t], prompt,
                                agentsToSend[1], now)
       IN /\ heap' = [heap EXCEPT ![t] = it.heap]
          /\ send' = [send EXCEPT ![t] =
                        [pc |-> "awaitChat", prompt |-> prompt, agents |-> agentsToSend,
                         k |-> 1, tid |-> activeThreadId[t], newThreads |-> newThreads,
                         thread |-> it.thread]]
          /\ chatReqs' = [chatReqs EXCEPT ![t] = @ \cup {it.request}]
    /\ UNCHANGED <<server, now, localStorage, call, console, mount, activeAgent, activeThreadId,
                   threads, logReqs, analysisReqs, nCreates>>

\* variant: the thread is saved under the id that is active when it is saved
handleSend_loopEnd_active(t, h, reqs, errors, full) ==
    LET s == send[t]
        newThreads == [i \in 1..Len(s.newThreads) |->
                         IF s.newThreads[i].id = s.thread.id THEN s.thread
                         ELSE s.newThreads[i]]
        saved == saveMessagesToThreadOutcome(localStorage, activeThreadId[t], h[s.thread.ref], full)
    IN
    /\ localStorage' = saved.store
    /\ console' = [console EXCEPT ![t] = @ \cup errors \cup saved.errors]
    /\ IF s.k < Len(s.agents)
       THEN LET it == IterationStart(
                        Collect(h, Range(threads[t]) \cup Range(newThreads)),
                        newThreads, s.tid, s.prompt, s.agents[s.k + 1], now)
            IN /\ heap' = [heap EXCEPT ![t] = it.heap]
               /\ send' = [send EXCEPT ![t] =
                             [s EXCEPT !.pc = "awaitChat", !.k = s.k + 1,
                                       !.newThreads = newThreads, !.thread = it.thread]]
               /\ chatReqs' = [chatReqs EXCEPT ![t] = reqs \cup {it.request}]
               /\ UNCHANGED <<threads, loading>>
       ELSE /\ threads' = [threads EXCEPT ![t] = newThreads]
            /\ loading' = [loading EXCEPT ![t] = FALSE]
            /\ send' = [send EXCEPT ![t] = IdleSend]
            /\ heap' = [heap EXCEPT ![t] = Collect(h, Range(newThreads))]
            /\ chatReqs' = [chatReqs EXCEPT ![t] = reqs]

\* handleSend, lines 72-76 and the head of the next iteration: the thread is
\* saved and put into newThreads; then the next iteration up to its fetch, or
\* setThreads and setLoading(false). h is the tab's heap, reqs its chat POSTs
\* in flight, errors the console lines of logMemory. full: the store has no
\* room; saveMessagesToThread catches what setItem throws, writes a console
\* line and leaves the store as it was, and the send goes on.
handleSend_loopEnd(t, h, reqs, errors, full) ==
    LET s == send[t]
        newThreads == [i \in 1..Len(s.newThreads) |->
                         IF s.newThreads[i].id = s.thread.id THEN s.thread
                         ELSE s.newThreads[i]]
        saved == saveMessagesToThreadOutcome(localStorage, s.tid, h[s.thread.ref], full)
    IN
    /\ localStorage' = saved.store
    /\ console' = [console EXCEPT ![t] = @ \cup errors \cup saved.errors]
    /\ IF s.k < Len(s.agents)
       THEN LET it == IterationStart(
                        Collect(h, Range(threads[t]) \cup Range(newThreads)),
                        newThreads, s.tid, s.prompt, s.agents[s.k + 1], now)
            IN /\ heap' = [heap EXCEPT ![t] = it.heap]
               /\ send' = [send EXCEPT ![t] =
                             [s EXCEPT !.pc = "awaitChat", !.k = s.k + 1,
                                       !.newThreads = newThreads, !.thread = it.thread]]
               /\ chatReqs' = [chatReqs EXCEPT ![t] = reqs \cup {it.request}]
               /\ UNCHANGED <<threads, loading>>
       ELSE /\ threads' = [threads EXCEPT ![t] = newThreads]
            /\ loading' = [loading EXCEPT ![t] = FALSE]
            /\ send' = [send EXCEPT ![t] = IdleSend]
            /\ heap' = [heap EXCEPT ![t] = Collect(h, Range(newThreads))]
            /\ chatReqs' = [chatReqs EXCEPT ![t] = reqs]

\* variant: a try/catch turns a failed request into an empty reply
awaitChat_swallow(fetchOutcome, upstream) ==
    [ok |-> TRUE,
     content |-> IF fetchOutcome = "rejected" THEN "" ELSE GatewayContent(upstream)]

\* handleSend, lines 63-68: what `await fetch` and `await res.json()` hand to the
\* code after them: the parsed body, or the rejection, which nothing catches
awaitChat(fetchOutcome, upstream) ==
    IF fetchOutcome = "rejected" THEN [ok |-> FALSE, content |-> ""]
    ELSE [ok |-> TRUE, content |-> GatewayContent(upstream)]

\* variant: lines 71 and 72 swapped, the thread is saved before logMemory is called
handleSend_afterChat_saveFirst(t, req, fetchOutcome, upstream, logTime) ==
    /\ send[t].pc = "awaitChat"
    /\ logTime >= now
    /\ req \in chatReqs[t]
    /\ chatReqs' = [chatReqs EXCEPT ![t] = @ \ {req}]
    /\ LET data == awaitChat(fetchOutcome, upstream)
           agent == send[t].agents[send[t].k]
           agentMsg == [role |-> "agent", agentName |-> agent, content |-> data.content,
                        timestamp |-> now]
       IN IF data.ok
          THEN /\ heap' = [heap EXCEPT ![t][send[t].thread.ref] = Append(@, agentMsg)]
               /\ localStorage' = saveMessagesToThread(localStorage, send[t].tid,
                                      Append(Messages(t, send[t].thread), agentMsg))
               /\ logReqs' = [logReqs EXCEPT ![t] =
                                @ \cup {logEntry(send[t].prompt, data.content, send[t].tid,
                                                 agent, logTime)}]
               /\ now' = logTime
               /\ send' = [send EXCEPT ![t].pc = "awaitLog"]
          ELSE /\ send' = [send EXCEPT ![t] = RejectedSend]
               /\ now' = now
               /\ heap' = [heap EXCEPT ![t] = Collect(@, Range(threads[t]))]
               /\ UNCHANGED <<localStorage, logReqs>>
    /\ UNCHANGED <<server, call, console, mount, activeAgent, activeThreadId,
                   threads, loading, nSends, nCreates, analysisReqs>>

\* variant: logMemory is called without await, the iteration goes on at once
handleSend_afterChat_noAwait(t, req, fetchOutcome, upstream, logTime) ==
    /\ send[t].pc = "awaitChat"
    /\ logTime >= now
    /\ req \in chatReqs[t]
    /\ LET data == awaitChat(fetchOutcome, upstream)
           agent == send[t].agents[send[t].k]
           agentMsg == [role |-> "agent", agentName |-> agent, content |-> data.content,
                        timestamp |-> now]
       IN IF data.ok
          THEN /\ logReqs' = [logReqs EXCEPT ![t] =
                                @ \cup {logEntry(send[t].prompt, data.content, send[t].tid,
                                                 agent, logTime)}]
               /\ now' = logTime
               /\ handleSend_loopEnd(
                      t, [heap[t] EXCEPT ![send[t].thread.ref] = Append(@, agentMsg)],
                      chatReqs[t] \ {req}, {}, FALSE)
          ELSE /\ send' = [send EXCEPT ![t] = RejectedSend]
               /\ now' = now
               /\ heap' = [heap EXCEPT ![t] = Collect(@, Range(threads[t]))]
               /\ chatReqs' = [chatReqs EXCEPT ![t] = @ \ {req}]
               /\ UNCHANGED <<localStorage, logReqs, threads, loading, console>>
    /\ UNCHANGED <<server, call, mount, activeAgent, activeThreadId, nSends,
                   nCreates, analysisReqs>>

\* variant: a finally re-enables the input when the chat request has failed
handleSend_afterChat_finally(t, req, fetchOutcome, upstream, logTime) ==
    /\ send[t].pc = "awaitChat"
    /\ logTime >= now
    /\ req \in chatReqs[t]
    /\ chatReqs' = [chatReqs EXCEPT ![t] = @ \ {req}]
    /\ LET data == awaitChat(fetchOutcome, upstream)
           agent == send[t].agents[send[t].k]
           agentMsg == [role |-> "agent", agentName |-> agent, content |-> data.content,
                        timestamp |-> now]
       IN IF data.ok
          THEN /\ heap' = [heap EXCEPT ![t][send[t].thread.ref] = Append(@, agentMsg)]
               /\ logReqs' = [logReqs EXCEPT ![t] =
                                @ \cup {logEntry(send[t].prompt, data.content, send[t].tid,
                                                 agent, logTime)}]
               /\ now' = logTime
               /\ send' = [send EXCEPT ![t].pc = "awaitLog"]
               /\ UNCHANGED loading
          ELSE /\ send' = [send EXCEPT ![t] = IdleSend]
               /\ now' = now
               /\ loading' = [loading EXCEPT ![t] = FALSE]
               /\ heap' = [heap EXCEPT ![t] = Collect(@, Range(threads[t]))]
               /\ UNCHANGED logReqs
    /\ UNCHANGED <<server, localStorage, call, console, mount, activeAgent, activeThreadId,
                   threads, nSends, nCreates, analysisReqs>>

\* handleSend, lines 63-71: the chat POST settles. Rejected: handleSend rejects.
\* Resolved: the reply is pushed and logMemory called, up to its await of fetch.
\* The clock is read twice: at line 69 for the reply, now, and in logMemory
\* (part_004, line 27) for the log record, logTime, which may be later.
handleSend_afterChat(t, req, fetchOutcome, upstream, logTime) ==
    /\ send[t].pc = "awaitChat"
    /\ logTime >= now
    /\ req \in chatReqs[t]
    /\ chatReqs' = [chatReqs EXCEPT ![t] = @ \ {req}]
    /\ LET data == awaitChat(fetchOutcome, upstream)
           agent == send[t].agents[send[t].k]
           agentMsg == [role |-> "agent", agentName |-> agent, content |-> data.content,
                        timestamp |-> now]
       IN IF data.ok
          THEN /\ heap' = [heap EXCEPT ![t][send[t].thread.ref] = Append(@, agentMsg)]
               /\ logReqs' = [logReqs EXCEPT ![t] =
                                @ \cup {logEntry(send[t].prompt, data.content, send[t].tid,
                                                 agent, logTime)}]
               /\ now' = logTime
               /\ send' = [send EXCEPT ![t].pc = "awaitLog"]
          ELSE /\ send' = [send EXCEPT ![t] = RejectedSend]
               /\ now' = now
               /\ heap' = [heap EXCEPT ![t] = Collect(@, Range(threads[t]))]
               /\ UNCHANGED logReqs
    /\ UNCHANGED <<server, localStorage, call, console, mount, activeAgent, activeThreadId,
                   threads, loading, nSends, nCreates, analysisReqs>>

ChatResolve(t, req, upstream, logTime) ==
    handleSend_afterChat(t, req, "resolved", upstream, logTime)

ChatReject(t, req) ==
    \E upstream \in Completions : handleSend_afterChat(t, req, "rejected", upstream, now)

\* handleSend, lines 71-76: the log POST settles and logMemory returns, which
\* handleSend awaits; then the rest of the iteration. full: the store has no
\* room when the thread is saved.
handleSend_afterLog(t, entry, fetchOutcome, full) ==
    /\ send[t].pc = "awaitLog"
    /\ entry \in logReqs[t]
    /\ logReqs' = [logReqs EXCEPT ![t] = @ \ {entry}]
    /\ IF logMemory(fetchOutcome).promise = "rejected"
       THEN /\ send' = [send EXCEPT ![t] = RejectedSend]
            /\ heap' = [heap EXCEPT ![t] = Collect(@, Range(threads[t]))]
            /\ console' = [console EXCEPT ![t] = @ \cup logMemory(fetchOutcome).errors]
            /\ UNCHANGED <<localStorage, threads, loading, chatReqs>>
       ELSE handleSend_loopEnd(t, heap[t], chatReqs[t], logMemory(fetchOutcome).errors, full)
    /\ UNCHANGED <<server, now, call, mount, activeAgent, activeThreadId, nSends, nCreates,
                   analysisReqs>>

\* handleExportThread, lines 88-100; ThreadManager calls it with activeThreadId.
\* The download is the file `${id}.md` with the export as content.
handleExportThread(t, id) ==
    /\ LET thread == find(threads[t], id)
       IN IF thread = Undefined
          THEN UNCHANGED call
          ELSE call' = [op |-> "export", id |-> id, messages |-> Messages(t, thread),
                        md |-> formatThreadForExport(id, Messages(t, thread))]
    /\ UNCHANGED <<server, now, localStorage, tabVars>>

\* handleAnalysis, lines 106-116: a pair for every even index (from 0) at which
\* a user message is followed by an agent message
analysisPairs(messages) ==
    SeqMap(LAMBDA i : [prompt |-> messages[i].content, response |-> messages[i + 1].content],
           SelectSeq([i \in 1..Len(messages) |-> i],
                     LAMBDA i : /\ i % 2 = 1
                                /\ i + 1 <= Len(messages)
                                /\ messages[i].role = "user"
                                /\ messages[i + 1].role = "agent"))

\* the log requests of analyses in flight, each once
AnalysisLogs(t) == BagToSet(analysisReqs[t])

\* handleAnalysis, lines 103-118, up to the await of fetch in logMemory. The
\* button is never disabled: every click on a listed thread starts a POST of
\* its own, also one with the body of a POST still in flight.
handleAnalysis(t) ==
    /\ LET thread == find(threads[t], activeThreadId[t])
       IN IF thread = Undefined
          THEN UNCHANGED analysisReqs
          ELSE analysisReqs' = [analysisReqs EXCEPT ![t] =
                  @ (+) SetToBag({logEntryASL(
                                     runIntrospectiveAnalysis(analysisPairs(Messages(t, thread))),
                                     activeThreadId[t], activeAgent[t], now)})]
    /\ UNCHANGED <<server, now, localStorage, call, console, heap, mount, activeAgent,
                   activeThreadId, threads, loading, send, chatReqs, logReqs, nSends, nCreates>>

\* handleAnalysis, lines 118-119: one log POST settles, logMemory returns, alert
handleAnalysis_afterLog(t, entry, fetchOutcome) ==
    /\ BagIn(entry, analysisReqs[t])
    /\ analysisReqs' = [analysisReqs EXCEPT ![t] = @ (-) SetToBag({entry})]
    /\ console' = [console EXCEPT ![t] = @ \cup logMemory(fetchOutcome).errors]
    /\ UNCHANGED <<server, now, localStorage, call, heap, mount, activeAgent,
                   activeThreadId, threads, loading, send, chatReqs, logReqs, nSends, nCreates>>

\* ------------------------------------------- direct thread store calls
\* The functions of threadManager called on their own, on any store they can
\* have left behind, beside a key of another feature of the same origin.
StoreIds == {THREAD_PREFIX \o "1", "", "notes"}

\* agentName and timestamp are optional properties of a Message
StoreMessages ==
    { [role |-> "user", content |-> "p", timestamp |-> 1],
      [role |-> "agent", agentName |-> "Premier", content |-> "r"] }

MessageLists == UNION {[1..n -> StoreMessages] : n \in 0..MaxLen}

InitStore ==
    /\ now = 1
    /\ localStorage \in {<<>>, ("notes" :> "memo")}
    /\ call = NoCall
    /\ server = IdleServer
    /\ console = [t \in Tabs |-> {}]
    /\ heap = [t \in Tabs |-> <<>>]
    /\ mount = [t \in Tabs |-> [pc |-> "init", ids |-> <<>>]]
    /\ activeAgent = [t \in Tabs |-> AGENTS[1]]
    /\ activeThreadId = [t \in Tabs |-> ""]
    /\ threads = [t \in Tabs |-> <<>>]
    /\ loading = [t \in Tabs |-> FALSE]
    /\ send = [t \in Tabs |-> IdleSend]
    /\ chatReqs = [t \in Tabs |-> {}]
    /\ logReqs = [t \in Tabs |-> {}]
    /\ analysisReqs = [t \in Tabs |-> EmptyBag]
    /\ nSends = 0
    /\ nCreates = 0

CallCreate ==
    /\ LET c == createNewThreadId(localStorage, now)
       IN /\ localStorage' = c.store
          /\ call' = [op |-> "create", id |-> c.threadId]
    /\ UNCHANGED <<server, now, tabVars>>

CallSave(id, messages) ==
    /\ localStorage' = saveMessagesToThread(localStorage, id, messages)
    /\ call' = [op |-> "save", id |-> id, messages |-> messages]
    /\ UNCHANGED <<server, now, tabVars>>

CallGet(id) ==
    /\ call' = [op |-> "get", id |-> id, result |-> getMessagesForThread(localStorage, id)]
    /\ UNCHANGED <<server, now, localStorage, tabVars>>

CallList(keyOrder) ==
    /\ call' = [op |-> "list", result |-> getAllThreadIds(keyOrder)]
    /\ UNCHANGED <<server, now, localStorage, tabVars>>

\* ------------------------------------------------ the export called directly
\* messages of every role, with and without agent name, one whose content
\* holds the text that separates sections
ExportMessages ==
    { [role |-> "user", content |-> "p", timestamp |-> 1],
      [role |-> "agent", agentName |-> "Premier", content |-> "r"],
      [role |-> "assistant", content |-> ""],
      [role |-> "agent", agentName |-> "", content |-> "x\n---\n\n### y"] }

ExportIds == {THREAD_PREFIX \o "1", "x" \o THREAD_PREFIX, "notes"}

CallExport(id, messages) ==
    /\ call' = [op |-> "export", id |-> id, messages |-> messages,
                md |-> formatThreadForExport(id, messages)]
    /\ UNCHANGED <<server, now, localStorage, tabVars>>

\* ------------------------------------------- the analysis called directly
\* texts shorter than, as long as and longer than the excerpt, one of them with
\* characters JSON.stringify escapes
FiftyChars == "0123456789abcdefghijklmnopqrstuvwxyzABCDEFGHIJKLMN"

AnalysisTexts == {"", "say \"hi\"\n\t\r\f", FiftyChars, FiftyChars \o "OP"}

AnalysisPairs == [prompt : AnalysisTexts, response : AnalysisTexts]

CallAnalysis(thread) ==
    /\ call' = [op |-> "analysis", thread |-> thread,
                summary |-> runIntrospectiveAnalysis(thread)]
    /\ UNCHANGED <<server, now, localStorage, tabVars>>

\* --------------------------- thread store calls on a failing store
\* The functions of threadManager called on a store that may be full (setItem
\* throws) and may hold, under a thread id, a text that is not JSON.
InitQuota ==
    /\ now = 1
    /\ localStorage \in {<<>>,
                         (THREAD_PREFIX \o "1") :> CorruptText,
                         (THREAD_PREFIX \o "1") :> JSONstringify(<<CHOOSE m \in StoreMessages : m.role = "user">>),
                         (THREAD_PREFIX \o "2") :> CorruptText}
    /\ call = NoCall
    /\ server = IdleServer
    /\ console = [t \in Tabs |-> {}]
    /\ heap = [t \in Tabs |-> <<>>]
    /\ mount = [t \in Tabs |-> [pc |-> "init", ids |-> <<>>]]
    /\ activeAgent = [t \in Tabs |-> AGENTS[1]]
    /\ activeThreadId = [t \in Tabs |-> ""]
    /\ threads = [t \in Tabs |-> <<>>]
    /\ loading = [t \in Tabs |-> FALSE]
    /\ send = [t \in Tabs |-> IdleSend]
    /\ chatReqs = [t \in Tabs |-> {}]
    /\ logReqs = [t \in Tabs |-> {}]
    /\ analysisReqs = [t \in Tabs |-> EmptyBag]
    /\ nSends = 0
    /\ nCreates = 0

QuotaCreate(full) ==
    /\ LET o == createNewThreadIdOutcome(localStorage, now, full)
       IN /\ localStorage' = o.store
          /\ call' = [op |-> "create", full |-> full, raised |-> o.raised, id |-> o.threadId,
                      errors |-> {}]
    /\ UNCHANGED <<server, now, tabVars>>

QuotaSave(id, messages, full) ==
    /\ LET o == saveMessagesToThreadOutcome(localStorage, id, messages, full)
       IN /\ localStorage' = o.store
          /\ call' = [op |-> "save", full |-> full, raised |-> o.raised, id |-> id,
                      messages |-> messages, errors |-> o.errors]
    /\ UNCHANGED <<server, now, tabVars>>

QuotaGet(id) ==
    /\ call' = [op |-> "get", full |-> FALSE, raised |-> FALSE, id |-> id,
                result |-> getMessagesForThread(localStorage, id),
                errors |-> getMessagesForThreadErrors(localStorage, id)]
    /\ UNCHANGED <<server, now, localStorage, tabVars>>

\* ------------------------------------ memory-log route (memory-log/route.ts)
LOGS_DIR == "logs/MemoryLogs"

\* new Date().toISOString() on the day-th UTC day of the month the server runs in
toISOString(day) ==
    "2025-06-" \o (IF day < 10 THEN "0" ELSE "") \o ToString(day) \o "T23:59:59.999Z"

\* s.split('T')[0]
splitT0(s) ==
    LET I == {i \in 1..Len(s) : SubSeq(s, i, i) = "T"}
    IN  IF I = {} THEN s ELSE SubSeq(s, 1, Min(I) - 1)

\* line 8
logPath(day) == LOGS_DIR \o "/log_" \o splitT0(toISOString(day)) \o ".json"

\* JSON.stringify of a log record: its properties in the order logMemory sets
\* them, a property that is undefined left out
LogKeys == <<"threadId", "agentName", "prompt", "response", "aslSummary", "timestamp">>

jsonMember(pair) ==
    quote(pair[1]) \o ":" \o (IF pair[1] \in NumberKeys THEN pair[2] ELSE quote(pair[2]))

stringifyLogEntry(entry) ==
    "{" \o join(SeqMap(jsonMember, SelectKeys(LogKeys, entry)), ",") \o "}"

\* line 11: the data handed to fs.appendFile
logLine(entry) == stringifyLogEntry(entry) \o "\n"

\* a file is the string of its bytes; a path without file reads as empty
FileOf(files, path) == IF path \in DOMAIN files THEN files[path] ELSE ""

\* variant: the file is opened with flag 'w', what is written replaces it
appendFile_overwrite(files, path, data) ==
    [q \in DOMAIN files \cup {path} |-> IF q = path THEN data ELSE files[q]]

\* a write to a file opened with flag 'a': data goes to the end of the file
appendFile(files, path, data) ==
    [q \in DOMAIN files \cup {path} |->
        IF q = path THEN FileOf(files, path) \o data ELSE files[q]]

\* the line an earlier run of the server has logged
OldLog == logLine(logEntry("o", "r", THREAD_PREFIX \o "0", "Premier", 0))

\* the request bodies logMemory posts
LogEntries ==
    { logEntry("p", "r", THREAD_PREFIX \o "1", "Premier", 1),
      logEntry("q\n", "", THREAD_PREFIX \o "1", "Lucius", 2) }

\* the server when it starts: nothing logged yet, or the log of an earlier run
InitLog ==
    /\ now = 1
    /\ localStorage = <<>>
    /\ call = NoCall
    /\ server \in {IdleServer,
                   [IdleServer EXCEPT
                      !.dirs = {LOGS_DIR},
                      !.files = logPath(1) :> OldLog]}
    /\ console = [t \in Tabs |-> {}]
    /\ heap = [t \in Tabs |-> <<>>]
    /\ mount = [t \in Tabs |-> [pc |-> "init", ids |-> <<>>]]
    /\ activeAgent = [t \in Tabs |-> AGENTS[1]]
    /\ activeThreadId = [t \in Tabs |-> ""]
    /\ threads = [t \in Tabs |-> <<>>]
    /\ loading = [t \in Tabs |-> FALSE]
    /\ send = [t \in Tabs |-> IdleSend]
    /\ chatReqs = [t \in Tabs |-> {}]
    /\ logReqs = [t \in Tabs |-> {}]
    /\ analysisReqs = [t \in Tabs |-> EmptyBag]
    /\ nSends = 0
    /\ nCreates = 0

\* midnight UTC passes on the server
DayTick(limit) ==
    /\ server.day < limit
    /\ server' = [server EXCEPT !.day = @ + 1]
    /\ UNCHANGED <<now, localStorage, call, tabVars>>

\* POST, lines 5-10: a request arrives; up to the await of fs.mkdir.
\* alone: every earlier request has been answered. fs: the file system call
\* the handler awaits: pending, open (fs.appendFile holds the file open), or
\* settled with its effect on the disk while the handler has not gone on yet.
\* data: what fs.appendFile has been given to append. written, writes: the
\* bytes of it that are in the file, and the writes it took.
MemoryLogPOST(entry) ==
    /\ server' = [server EXCEPT !.reqs = Append(@,
                     [entry |-> entry, day |-> server.day, logPath |-> logPath(server.day),
                      pc |-> "mkdir", fs |-> "pending", data |-> "", written |-> 0, writes |-> 0,
                      alone |-> \A i \in 1..Len(server.reqs) :
                                   server.reqs[i].pc \in {"acked", "failed"}])]
    /\ UNCHANGED <<now, localStorage, call, tabVars>>

\* fs.mkdir(logsDir, { recursive: true }) of request i settles: resolved, the
\* directory is on the disk; the handler goes on in a later turn
fs_mkdir(i, fsOutcome) ==
    /\ i \in 1..Len(server.reqs)
    /\ server.reqs[i].pc = "mkdir"
    /\ server.reqs[i].fs = "pending"
    /\ server' = IF fsOutcome = "rejected"
                 THEN [server EXCEPT !.reqs[i].fs = "rejected"]
                 ELSE [server EXCEPT !.dirs = @ \cup {LOGS_DIR}, !.reqs[i].fs = "resolved"]
    /\ UNCHANGED <<now, localStorage, call, tabVars>>

\* variant: fs.appendFile is not called, the acknowledgement is returned at once
MemoryLog_afterMkdir_ackFirst(i) ==
    /\ i \in 1..Len(server.reqs)
    /\ server.reqs[i].pc = "mkdir"
    /\ server.reqs[i].fs # "pending"
    /\ server' = IF server.reqs[i].fs = "rejected"
                 THEN [server EXCEPT !.reqs[i].pc = "failed"]
                 ELSE [server EXCEPT !.reqs[i].pc = "acked"]
    /\ UNCHANGED <<now, localStorage, call, tabVars>>

\* POST, lines 10-11: the handler goes on after `await fs.mkdir`: rejected, it
\* throws and the request is answered with an error; resolved, it calls
\* fs.appendFile and awaits it
MemoryLog_afterMkdir(i) ==
    /\ i \in 1..Len(server.reqs)
    /\ server.reqs[i].pc = "mkdir"
    /\ server.reqs[i].fs # "pending"
    /\ server' = IF server.reqs[i].fs = "rejected"
                 THEN [server EXCEPT !.reqs[i].pc = "failed"]
                 ELSE [server EXCEPT !.reqs[i].pc = "appendFile", !.reqs[i].fs = "pending",
                                      !.reqs[i].data = logLine(server.reqs[i].entry)]
    /\ UNCHANGED <<now, localStorage, call, tabVars>>

\* fs.appendFile(logPath, JSON.stringify(logEntry) + '\n') of request i, first
\* turn: the file is opened with flag 'a', which creates it, empty, when it
\* is not there; or the open fails and the call is rejected
fs_appendFile_open(i, fsOutcome) ==
    /\ i \in 1..Len(server.reqs)
    /\ server.reqs[i].pc = "appendFile"
    /\ server.reqs[i].fs = "pending"
    /\ server' = IF fsOutcome = "rejected"
                 THEN [server EXCEPT !.reqs[i].fs = "rejected"]
                 ELSE [server EXCEPT
                         !.files = appendFile(@, server.reqs[i].logPath, ""),
                         !.reqs[i].fs = "open"]
    /\ UNCHANGED <<now, localStorage, call, tabVars>>

\* fs.appendFile writes until the line is out: a write puts the next n bytes
\* at the end of the file as it is then, all that is left or less; or the
\* write fails, the file is closed and the call rejected
fs_appendFile_write(i, n, fsOutcome) ==
    /\ i \in 1..Len(server.reqs)
    /\ server.reqs[i].pc = "appendFile"
    /\ server.reqs[i].fs = "open"
    /\ LET req == server.reqs[i]
           data == req.data
       IN /\ req.written < Len(data)
          /\ n \in 1..(Len(data) - req.written)
          /\ server' = IF fsOutcome = "rejected"
                       THEN [server EXCEPT !.reqs[i].fs = "rejected"]
                       ELSE [server EXCEPT
                               !.files = appendFile(@, req.logPath,
                                            SubSeq(data, req.written + 1, req.written + n)),
                               !.reqs[i].written = @ + n,
                               !.reqs[i].writes = @ + 1]
    /\ UNCHANGED <<now, localStorage, call, tabVars>>

\* the line is out: fs.appendFile closes the file and its promise resolves
fs_appendFile_close(i) ==
    /\ i \in 1..Len(server.reqs)
    /\ server.reqs[i].pc = "appendFile"
    /\ server.reqs[i].fs = "open"
    /\ server.reqs[i].written = Len(server.reqs[i].data)
    /\ server' = [server EXCEPT !.reqs[i].fs = "resolved"]
    /\ UNCHANGED <<now, localStorage, call, tabVars>>

\* POST, lines 11-12: the handler goes on after `await fs.appendFile`:
\* rejected, it throws; resolved, { status: 'Logged' } is returned
MemoryLog_afterAppend(i) ==
    /\ i \in 1..Len(server.reqs)
    /\ server.reqs[i].pc = "appendFile"
    /\ server.reqs[i].fs \in {"resolved", "rejected"}
    /\ server' = IF server.reqs[i].fs = "rejected"
                 THEN [server EXCEPT !.reqs[i].pc = "failed"]
                 ELSE [server EXCEPT !.reqs[i].pc = "acked"]
    /\ UNCHANGED <<now, localStorage, call, tabVars>>

\* the response a request has got; status 0: none yet
MemoryLogResponse(req) ==
    IF req.pc = "acked" THEN [status |-> 200, body |-> [status |-> "Logged"]]
    ELSE IF req.pc = "failed" THEN [status |-> 500, body |-> <<>>]
    ELSE [status |-> 0, body |-> <<>>]

\* ------------------------------------------ audit route (audit/[threadId])
AUDIT_ERROR ==
    "Thread audit is not available server-side. Please implement client-side or via a persistent API."

\* variant: an id that is no thread id is answered with 404
GET_checksId(threadId) ==
    IF startsWith(threadId, THREAD_PREFIX)
    THEN [status |-> 501, body |-> [error |-> AUDIT_ERROR]]
    ELSE [status |-> 404, body |-> [error |-> "Not found"]]

\* GET, lines 3-6: the response, whatever the thread id of the path
GET(threadId) == [status |-> 501, body |-> [error |-> AUDIT_ERROR]]

AuditIds == {THREAD_PREFIX \o "1", "", "x"}

\* a request to /api/audit/<threadId>, as runAudit of the dashboard sends it
AuditGET(threadId) ==
    /\ call' = [op |-> "audit", threadId |-> threadId, response |-> GET(threadId)]
    /\ UNCHANGED <<server, now, localStorage, tabVars>>

\* ----------------------------------------- the chat gateway called directly
GatewayPrompts == {"p", ""}

ContextEntries ==
    { [role |-> "user", content |-> "p"],
      [role |-> "assistant", content |-> "r"],
      [role |-> "system", content |-> "s"] }

\* request bodies: with a context of up to MaxContext entries, or with none
GatewayBodies ==
    {[prompt |-> prompt] : prompt \in GatewayPrompts}
    \cup {[prompt |-> prompt, context |-> context] :
            prompt \in GatewayPrompts,
            context \in UNION {[1..n -> ContextEntries] : n \in 0..MaxContext}}

\* completions of the provider: no choice, a choice without message, a message
\* whose content is null, an empty text, a text, two choices
GatewayCompletions ==
    { [choices |-> <<>>],
      [choices |-> <<[index |-> 0]>>],
      [choices |-> <<[message |-> [role |-> "assistant"]]>>],
      [choices |-> <<[message |-> [role |-> "assistant", content |-> ""]]>>],
      [choices |-> <<[message |-> [role |-> "assistant", content |-> "r"]]>>],
      [choices |-> <<[message |-> [role |-> "assistant", content |-> "r"]],
                     [message |-> [role |-> "assistant", content |-> "x"]]>>],
      [choices |-> <<[message |-> [role |-> "assistant"]],
                     [message |-> [role |-> "assistant", content |-> "x"]]>>] }

\* POST of /api/chat-with-premier, lines 6-21, with the provider answering
ChatPOST(body, upstream) ==
    /\ call' = [op |-> "chat", body |-> body,
                messages |-> GatewayMessages(body.prompt, ContextOf(body)),
                upstream |-> upstream,
                content |-> GatewayContent(upstream)]
    /\ UNCHANGED <<server, now, localStorage, tabVars>>

\* ------------------------------------------------------ specifications
\* Spec: one tab; thread management and single sends, also while a send is in
\* flight.
Next ==
    \/ Tick(MaxTime)
    \/ useEffect_scan(1)
    \/ useEffect_finish(1, FALSE)
    \/ \E id \in DOMAIN localStorage : handleSelectThread(1, id)
    \/ nCreates < MaxCreates /\ handleCreateThread(1, FALSE)
    \/ nSends < MaxSends /\ \E prompt \in Prompts : handleSend(1, prompt, FALSE)
    \/ \E req \in chatReqs[1], upstream \in Completions,
             logTime \in ClockReads(MaxTime) : ChatResolve(1, req, upstream, logTime)
    \/ \E req \in chatReqs[1] : ChatReject(1, req)
    \/ \E entry \in logReqs[1], fetchOutcome \in {"resolved", "rejected"} :
          handleSend_afterLog(1, entry, fetchOutcome, FALSE)

Spec == Init /\ [][Next]_vars

\* SpecBroadcast: one tab; sends to the active agent and broadcasts to AGENTS.
\* A broadcast is handleSend called with its second parameter true; the view
\* itself passes false (line 139), so a broadcast needs another caller.
NextBroadcast ==
    \/ Tick(MaxBroadcastTime)
    \/ useEffect_scan(1)
    \/ useEffect_finish(1, FALSE)
    \/ \E agent \in PickedAgents : setActiveAgent(1, agent)
    \/ nSends < MaxBroadcastSends /\ \E prompt \in Prompts, broadcast \in BOOLEAN :
          handleSend(1, prompt, broadcast)
    \/ \E req \in chatReqs[1], upstream \in Completions,
             logTime \in ClockReads(MaxBroadcastTime) : ChatResolve(1, req, upstream, logTime)
    \/ \E req \in chatReqs[1] : ChatReject(1, req)
    \/ \E entry \in logReqs[1], fetchOutcome \in {"resolved", "rejected"} :
          handleSend_afterLog(1, entry, fetchOutcome, FALSE)

SpecBroadcast == Init /\ [][NextBroadcast]_vars

\* SpecTabs: two tabs on the same localStorage, each sending to its active agent
\* on the thread its mount effect made active.
NextTabs ==
    \/ Tick(MaxTabTime)
    \/ \E t \in Tabs : useEffect_scan(t)
    \/ \E t \in Tabs : useEffect_finish(t, FALSE)
    \/ nSends < MaxTabSends /\ \E t \in Tabs, prompt \in Prompts : handleSend(t, prompt, FALSE)
    \/ \E t \in Tabs : \E req \in chatReqs[t], upstream \in Completions,
             logTime \in ClockReads(MaxTabTime) : ChatResolve(t, req, upstream, logTime)
    \/ \E t \in Tabs : \E req \in chatReqs[t] : ChatReject(t, req)
    \/ \E t \in Tabs : \E entry \in logReqs[t], fetchOutcome \in {"resolved", "rejected"} :
          handleSend_afterLog(t, entry, fetchOutcome, FALSE)

SpecTabs == Init /\ [][NextTabs]_vars

\* SpecStore: the thread store functions called directly, in any order.
NextStore ==
    \/ Tick(MaxStoreTime)
    \/ CallCreate
    \/ \E id \in StoreIds, messages \in MessageLists : CallSave(id, messages)
    \/ \E id \in StoreIds : CallGet(id)
    \/ \E keyOrder \in Enumerations(DOMAIN localStorage) : CallList(keyOrder)

SpecStore == InitStore /\ [][NextStore]_vars

\* SpecQuota: the thread store functions called directly on a failing store,
\* and a tab opened on it.
NextQuota ==
    \/ useEffect_scan(1)
    \/ \E full \in BOOLEAN : useEffect_finish(1, full)
    \/ \E full \in BOOLEAN : QuotaCreate(full)
    \/ \E id \in StoreIds, messages \in MessageLists, full \in BOOLEAN :
          QuotaSave(id, messages, full)
    \/ \E id \in StoreIds \cup {THREAD_PREFIX \o "2"} : QuotaGet(id)

SpecQuota == InitQuota /\ [][NextQuota]_vars

\* SpecGateway: the chat gateway called with any body, any completion coming back.
NextGateway ==
    \E body \in GatewayBodies, upstream \in GatewayCompletions : ChatPOST(body, upstream)

SpecGateway == Init /\ [][NextGateway]_vars

\* SpecLog: the server's memory-log and audit routes, requests overlapping or
\* not, file system calls failing and writes coming short.
\* the file system calls that have failed and the writes that have come short
RECURSIVE LogFaultsOf(_)
LogFaultsOf(reqs) ==
    IF reqs = <<>> THEN 0
    ELSE LET req == Head(reqs)
         IN (IF req.fs = "rejected" \/ req.pc = "failed" THEN 1 ELSE 0)
              + (IF req.written = Len(req.data) /\ req.writes > 0 THEN req.writes - 1
                 ELSE req.writes)
              + LogFaultsOf(Tail(reqs))

LogFaults == LogFaultsOf(server.reqs)

\* LogOps: the midnights passed, the log requests taken, the audit asked, and
\* the file system calls failed and the writes come short
LogOps ==
    (server.day - 1) + Len(server.reqs) + (IF call.op = "audit" THEN 1 ELSE 0) + LogFaults

\* what a file system call may come to: it fails only within the budget
FsOutcomes == {"resolved"} \cup (IF LogOps < MaxLogOps THEN {"rejected"} ELSE {})

\* the sizes the next write of request i may have: all that is left of the
\* line or, within the budget, one half of it
WriteSizes(i) ==
    LET left == Len(server.reqs[i].data) - server.reqs[i].written
    IN  {n \in {left} : n > 0}
           \cup (IF LogOps < MaxLogOps THEN {n \in {left \div 2} : n > 0} ELSE {})

NextLog ==
    \/ LogOps < MaxLogOps /\ DayTick(MaxDays)
    \/ LogOps < MaxLogOps /\ Len(server.reqs) < MaxPosts
          /\ \E entry \in LogEntries : MemoryLogPOST(entry)
    \/ \E i \in 1..Len(server.reqs), fsOutcome \in FsOutcomes :
          fs_mkdir(i, fsOutcome)
    \/ \E i \in 1..Len(server.reqs) : MemoryLog_afterMkdir(i)
    \/ \E i \in 1..Len(server.reqs), fsOutcome \in FsOutcomes :
          fs_appendFile_open(i, fsOutcome)
    \/ \E i \in 1..Len(server.reqs), fsOutcome \in FsOutcomes :
          \E n \in WriteSizes(i) : fs_appendFile_write(i, n, fsOutcome)
    \/ \E i \in 1..Len(server.reqs) : fs_appendFile_close(i)
    \/ \E i \in 1..Len(server.reqs) : MemoryLog_afterAppend(i)
    \/ (LogOps < MaxLogOps \/ call.op = "audit") /\ \E threadId \in AuditIds : AuditGET(threadId)

SpecLog == InitLog /\ [][NextLog]_vars

\* SpecApp: one tab, every operation of the chat view: mount, thread creation
\* and selection, sends, export and analysis; and broadcasts, which are calls
\* of handleSend with its second parameter true, as in SpecBroadcast.
AppOps ==
    (now - 1) + nSends + nCreates + BagCardinality(analysisReqs[1])
        + (IF call.op = "export" THEN 1 ELSE 0)

\* within the budget the time may pass between the two clock reads of a turn
AppClockReads == {c \in ClockReads(MaxAppOps) : c = now \/ AppOps < MaxAppOps}

NextApp ==
    \/ AppOps < MaxAppOps /\ Tick(MaxAppOps)
    \/ useEffect_scan(1)
    \/ useEffect_finish(1, FALSE)
    \/ \E id \in DOMAIN localStorage : handleSelectThread(1, id)
    \/ AppOps < MaxAppOps /\ handleCreateThread(1, FALSE)
    \/ AppOps < MaxAppOps /\ \E prompt \in Prompts, broadcast \in BOOLEAN :
          handleSend(1, prompt, broadcast)
    \/ \E req \in chatReqs[1], upstream \in Completions, logTime \in AppClockReads :
          ChatResolve(1, req, upstream, logTime)
    \/ \E req \in chatReqs[1] : ChatReject(1, req)
    \/ \E entry \in logReqs[1], fetchOutcome \in {"resolved", "rejected"} :
          handleSend_afterLog(1, entry, fetchOutcome, FALSE)
    \/ AppOps < MaxAppOps /\ handleExportThread(1, activeThreadId[1])
    \/ AppOps < MaxAppOps /\ handleAnalysis(1)
    \/ \E entry \in AnalysisLogs(1), fetchOutcome \in {"resolved", "rejected"} :
          handleAnalysis_afterLog(1, entry, fetchOutcome)

SpecApp == Init /\ [][NextApp]_vars

\* SpecMount: one tab opened on a store that earlier sessions have left: no
\* thread, one thread with an exchange, or two threads, beside a key of
\* another feature of the same origin; and a store in which the text of a
\* thread has been damaged from outside. The earlier sessions ran at times 1, 2.
\* The store has room for what the tab writes.
SessionExchange ==
    <<[role |-> "user", content |-> "p", timestamp |-> 1],
      [role |-> "agent", agentName |-> "Premier", content |-> "r", timestamp |-> 2]>>

SessionStores ==
    { <<>>,
      ("notes" :> "memo"),
      ((THREAD_PREFIX \o "1") :> JSONstringify(SessionExchange)) @@ ("notes" :> "memo"),
      ((THREAD_PREFIX \o "1") :> JSONstringify(SessionExchange))
          @@ ((THREAD_PREFIX \o "2") :> JSONstringify(<<>>)),
      ((THREAD_PREFIX \o "1") :> JSONstringify(SessionExchange))
          @@ ((THREAD_PREFIX \o "2") :> CorruptText) @@ ("notes" :> "memo") }

InitMount ==
    /\ now = 3
    /\ localStorage \in SessionStores
    /\ console = [t \in Tabs |-> {}]
    /\ heap = [t \in Tabs |-> <<>>]
    /\ mount = [t \in Tabs |-> [pc |-> "init", ids |-> <<>>]]
    /\ activeAgent = [t \in Tabs |-> AGENTS[1]]
    /\ activeThreadId = [t \in Tabs |-> ""]
    /\ threads = [t \in Tabs |-> <<>>]
    /\ loading = [t \in Tabs |-> FALSE]
    /\ send = [t \in Tabs |-> IdleSend]
    /\ chatReqs = [t \in Tabs |-> {}]
    /\ logReqs = [t \in Tabs |-> {}]
    /\ analysisReqs = [t \in Tabs |-> EmptyBag]
    /\ nSends = 0
    /\ nCreates = 0
    /\ call = NoCall
    /\ server = IdleServer

NextMount ==
    \/ Tick(MaxMountTime)
    \/ useEffect_scan(1)
    \/ useEffect_finish(1, FALSE)
    \/ \E id \in DOMAIN localStorage : handleSelectThread(1, id)
    \/ nCreates < MaxMountCreates /\ handleCreateThread(1, FALSE)
    \/ nSends < MaxMountSends /\ \E prompt \in Prompts : handleSend(1, prompt, FALSE)
    \/ \E req \in chatReqs[1], upstream \in Completions,
             logTime \in ClockReads(MaxMountTime) : ChatResolve(1, req, upstream, logTime)
    \/ \E req \in chatReqs[1] : ChatReject(1, req)
    \/ \E entry \in logReqs[1], fetchOutcome \in {"resolved", "rejected"} :
          handleSend_afterLog(1, entry, fetchOutcome, FALSE)

SpecMount == InitMount /\ [][NextMount]_vars

\* SpecFull: one tab on a failing store, opened on the stores of SpecQuota and
\* of SpecMount, in which threads are created and prompts are sent, one of them
\* as a broadcast; at each write the store has room or has none.
InitFull == InitQuota \/ InitMount

NextFull ==
    \/ Tick(MaxFullTime)
    \/ useEffect_scan(1)
    \/ \E full \in BOOLEAN : useEffect_finish(1, full)
    \/ nCreates < MaxFullCreates /\ \E full \in BOOLEAN : handleCreateThread(1, full)
    \/ nSends < MaxFullSends /\ \E prompt \in Prompts, broadcast \in BOOLEAN :
          handleSend(1, prompt, broadcast)
    \/ \E req \in chatReqs[1], upstream \in Completions,
             logTime \in ClockReads(MaxFullTime) : ChatResolve(1, req, upstream, logTime)
    \/ \E req \in chatReqs[1] : ChatReject(1, req)
    \/ \E entry \in logReqs[1], fetchOutcome \in {"resolved", "rejected"}, full \in BOOLEAN :
          handleSend_afterLog(1, entry, fetchOutcome, full)

SpecFull == InitFull /\ [][NextFull]_vars

\* SpecLive: SpecBroadcast with every network call settling at last: a request
\* in flight is resolved or rejected, and the code after its await runs.
Settle(t) ==
    \/ \E req \in chatReqs[t], upstream \in Completions,
             logTime \in ClockReads(MaxBroadcastTime) : ChatResolve(t, req, upstream, logTime)
    \/ \E req \in chatReqs[t] : ChatReject(t, req)
    \/ \E entry \in logReqs[t], fetchOutcome \in {"resolved", "rejected"} :
          handleSend_afterLog(t, entry, fetchOutcome, FALSE)

SpecLive == Init /\ [][NextBroadcast]_vars /\ WF_vars(Settle(1))

\* SpecExport: formatThreadForExport called with any id and any message list.
NextExport ==
    \E id \in ExportIds, messages \in UNION {[1..n -> ExportMessages] : n \in 0..MaxExport} :
        CallExport(id, messages)

SpecExport == Init /\ [][NextExport]_vars

\* SpecAnalysis: runIntrospectiveAnalysis called with any list of pairs: with no
\* pairs, and with the list of the call before grown by a pair.
NextAnalysis ==
    \/ CallAnalysis(<<>>)
    \/ /\ call.op = "analysis"
       /\ Len(call.thread) < MaxPairs
       /\ \E pair \in AnalysisPairs : CallAnalysis(Append(call.thread, pair))

SpecAnalysis == Init /\ [][NextAnalysis]_vars

\* ------------------------------------------------------------- properties
Stored(id) == getMessagesForThread(localStorage, id)

ValidId(id) == id # "" /\ startsWith(id, THREAD_PREFIX)

MessagesNext(t, thread) == heap'[t][thread.ref]

StoredNext(id) == getMessagesForThread(localStorage', id)

\* the step in which the log POST of tab t settles
LogSettles(t) == logReqs[t] # {} /\ logReqs'[t] = {}

\* the step in which handleSend of tab t saves its thread
SaveStep(t) == send[t].pc = "awaitLog" /\ send'[t].pc \in {"idle", "awaitChat"}

\* C1: in one tab, under any sequence of create-thread, select-thread and send
\* actions, every write handleSend makes to a thread's stored message list
\* extends the list stored before: the old list is a prefix of the new one.
C1_SavesExtendStoredList ==
    [][\A t \in Tabs :
         SaveStep(t) =>
            IsPrefixOf(Stored(send[t].tid), StoredNext(send[t].tid))]_vars

\* C2: for every valid thread id and every message list, getMessagesForThread
\* right after saveMessagesToThread on the same id returns the same messages
\* in the same order.
C2_SaveThenGet ==
    (call.op = "save" /\ ValidId(call.id)) => Stored(call.id) = call.messages

C2_Witness ==
    /\ call.op = "save"
    /\ ValidId(call.id)
    /\ Len(call.messages) = 2
    /\ call.messages[1].role = "user"
    /\ call.messages[2].role = "agent"
    /\ Stored(call.id) = call.messages

\* C3: right after createNewThreadId returns id T, getMessagesForThread(T) is
\* the empty list and T is among the ids getAllThreadIds returns, in whatever
\* order the store lists its keys.
C3_CreateThenRead ==
    call.op = "create" =>
        /\ Stored(call.id) = <<>>
        /\ \A keyOrder \in Enumerations(DOMAIN localStorage) :
              call.id \in Range(getAllThreadIds(keyOrder))

C3_Witness ==
    /\ call.op = "create"
    /\ Stored(call.id) = <<>>
    /\ "notes" \in DOMAIN localStorage
    /\ Cardinality(DOMAIN localStorage) = 3

\* the step in which tab t calls createNewThreadId, and the id it gets
CreateStep(t) ==
    \/ mount[t].pc = "scanned" /\ Len(mount[t].ids) = 0 /\ mount'[t].pc = "mounted"
    \/ nCreates' = nCreates + 1 /\ activeThreadId'[t] # activeThreadId[t]

\* C4: createNewThreadId returns an id that no thread in storage has, and
\* leaves the stored list of every existing thread as it was, however close in
\* time two calls are, in one tab or in two.
C4_CreateIsFresh ==
    [][\A t \in Tabs :
         CreateStep(t) =>
            /\ activeThreadId'[t] \notin DOMAIN localStorage
            /\ \A id \in DOMAIN localStorage : localStorage'[id] = localStorage[id]]_vars

\* C5: with two tabs on one store, when the log POST of a tab settles the tab
\* saves: the stored list of its thread becomes exactly the list that tab
\* holds in memory, whatever the other tab had stored there (no merge), and
\* its handleSend goes on without rejecting.
C5_LastWriteWins ==
    [][\A t \in Tabs :
         LogSettles(t) =>
            /\ StoredNext(send[t].tid) = Messages(t, send[t].thread)
            /\ send'[t].pc \in {"idle", "awaitChat"}]_vars

\* both tabs have sent on the same thread; the store holds the list of tab b and
\* lacks a reply tab a saved
C5_Witness ==
    \E a, b \in Tabs :
        /\ a # b
        /\ send[a].pc = "idle" /\ send[b].pc = "idle"
        /\ activeThreadId[a] = activeThreadId[b]
        /\ find(threads[a], activeThreadId[a]) # Undefined
        /\ find(threads[b], activeThreadId[b]) # Undefined
        /\ LET mine == Messages(a, find(threads[a], activeThreadId[a]))
               theirs == Messages(b, find(threads[b], activeThreadId[b]))
           IN /\ Len(mine) = 2 /\ Len(theirs) = 2
              /\ Stored(activeThreadId[a]) = theirs
              /\ mine[2] \notin Range(Stored(activeThreadId[a]))

\* a step of the mount effect or of handleCreateThread, which may create a thread
CreatesThread ==
    \/ nCreates' # nCreates
    \/ \E t \in Tabs : mount[t].pc = "scanned" /\ mount'[t].pc = "mounted"

\* C6 as stated: the reply is persisted before the log record is sent, so
\* while a log POST is in flight the stored list already holds the reply.
C6_PersistedBeforeLogged ==
    \A t \in Tabs :
        logReqs[t] # {} => Stored(send[t].tid) = Messages(t, send[t].thread)

\* C6, amended: in each round trip the user message is appended and the chat
\* request issued in one step; when the reply arrives it is appended to the
\* thread in memory and the log record sent, the store untouched, the record
\* stamped with a clock read of its own that is not earlier than the reply's;
\* the thread is written to the store only in the step in which the log POST
\* has settled.
C6_RoundTripOrder ==
    [][\A t \in Tabs :
         /\ \A req \in chatReqs'[t] \ chatReqs[t] :
               /\ Last(MessagesNext(t, send'[t].thread)).role = "user"
               /\ Last(MessagesNext(t, send'[t].thread)).content = req.prompt
               /\ logReqs'[t] = {}
         /\ \A entry \in logReqs'[t] \ logReqs[t] :
               /\ chatReqs[t] # {} /\ chatReqs'[t] = {}
               /\ Last(Messages(t, send[t].thread)).role = "user"
               /\ MessagesNext(t, send[t].thread) =
                      Append(Messages(t, send[t].thread),
                             [role |-> "agent", agentName |-> entry.agentName,
                              content |-> entry.response, timestamp |-> now])
               /\ entry.timestamp = now'
               /\ entry.timestamp >= Last(MessagesNext(t, send[t].thread)).timestamp
               /\ localStorage' = localStorage
         /\ (localStorage' # localStorage /\ ~CreatesThread /\ send'[t] # send[t]) =>
               /\ LogSettles(t)
               /\ Last(Messages(t, send[t].thread)).role = "agent"
               /\ StoredNext(send[t].tid) = Messages(t, send[t].thread)]_vars

\* a whole round trip has run: the stored list is the user message and the reply
C6_Witness ==
    /\ send[1].pc = "idle"
    /\ nSends = 1
    /\ logReqs[1] = {}
    /\ Len(Stored(activeThreadId[1])) = 2
    /\ Stored(activeThreadId[1])[1].role = "user"
    /\ Stored(activeThreadId[1])[2].role = "agent"

\* C7 as stated: the send flow does not wait on the log POST, so the step in
\* which a log POST settles changes neither the store nor loading.
C7_LogNotAwaited ==
    [][\A t \in Tabs :
         LogSettles(t) => (localStorage' = localStorage /\ loading'[t] = loading[t])]_vars

\* C7, amended: handleSend awaits logMemory. While the log POST is in flight
\* handleSend is suspended and loading is true; the send flow writes the store,
\* and resets loading, only in the step in which the log POST settles.
C7_SendWaitsOnLog ==
    [][/\ \A t \in Tabs :
            /\ logReqs[t] # {} => (loading[t] /\ send[t].pc = "awaitLog")
            /\ (loading[t] /\ ~loading'[t]) => LogSettles(t)
       /\ (localStorage' # localStorage /\ ~CreatesThread) =>
            \E t \in Tabs : LogSettles(t)]_vars

\* the log POST is in flight: the reply is in memory only and the input disabled
C7_Witness ==
    /\ send[1].pc = "awaitLog"
    /\ logReqs[1] # {}
    /\ chatReqs[1] = {}
    /\ loading[1]
    /\ Last(Messages(1, send[1].thread)).role = "agent"
    /\ Stored(send[1].tid) = <<>>

\* C8: when the log POST fails, logMemory catches the failure and writes it to
\* the console; handleSend does not reject: in the same step it saves the
\* thread with the reply, then goes on to the next agent if one remains, and
\* otherwise ends with loading false.
C8_LogFailureIsCaught ==
    [][\A t \in Tabs : \A entry \in logReqs[t] :
         handleSend_afterLog(t, entry, "rejected", FALSE) =>
            /\ LOG_FAILED \in console'[t]
            /\ send'[t].pc # "rejected"
            /\ StoredNext(send[t].tid) = Messages(t, send[t].thread)
            /\ Last(StoredNext(send[t].tid)).content = entry.response
            /\ IF send[t].k < Len(send[t].agents)
               THEN /\ send'[t].pc = "awaitChat"
                    /\ send'[t].k = send[t].k + 1
                    /\ \E req \in chatReqs'[t] :
                          req.agentName = send[t].agents[send[t].k + 1]
                    /\ loading'[t]
               ELSE /\ send'[t].pc = "idle"
                    /\ ~loading'[t]]_vars

\* the log POST of the first agent of a broadcast failed; the reply is stored
\* and the request of the second agent is in flight
C8_Witness ==
    /\ LOG_FAILED \in console[1]
    /\ nSends = 1
    /\ send[1].agents = AGENTS
    /\ send[1].pc = "awaitChat"
    /\ send[1].k = 2
    /\ chatReqs[1] # {}
    /\ Len(Stored(send[1].tid)) = 2
    /\ Stored(send[1].tid)[2].agentName = AGENTS[1]

\* C9: when the chat request fails, handleSend rejects: it issues no other
\* request, appends no message, sends no log record and does not write the
\* store; a rejected handleSend has nothing in flight.
C9_ChatFailureRejects ==
    [][\A t \in Tabs :
         /\ \A req \in chatReqs[t] :
               ChatReject(t, req) =>
                  /\ send'[t].pc = "rejected"
                  /\ chatReqs'[t] = {}
                  /\ logReqs'[t] = logReqs[t]
                  /\ localStorage' = localStorage
                  /\ \A r \in DOMAIN heap'[t] : heap'[t][r] = heap[t][r]
         /\ send[t].pc = "rejected" => (chatReqs[t] = {} /\ logReqs[t] = {})]_vars

\* the first request failed: the user message is in memory, nothing is stored
C9_Witness ==
    /\ send[1].pc = "rejected"
    /\ nSends = 1
    /\ find(threads[1], activeThreadId[1]) # Undefined
    /\ Len(Messages(1, find(threads[1], activeThreadId[1]))) = 1
    /\ Last(Messages(1, find(threads[1], activeThreadId[1]))).role = "user"
    /\ Stored(activeThreadId[1]) = <<>>
    /\ logReqs[1] = {}

\* C10: at most one chat request is in flight. The first request of a send is
\* for the first agent; the request for agent k+1 is issued in the step in
\* which the log POST for agent k settles, with the reply of agent k appended
\* and the thread saved with it; a broadcast goes through AGENTS in order and
\* ends after the last agent.
C10_SequentialRoundTrips ==
    [][\A t \in Tabs :
         /\ Cardinality(chatReqs'[t]) <= 1
         /\ \A req \in chatReqs'[t] \ chatReqs[t] :
               LET k == send'[t].k
                   agents == send'[t].agents
               IN /\ k \in 1..Len(agents)
                  /\ req.agentName = agents[k]
                  /\ agents = AGENTS \/ agents = <<activeAgent[t]>>
                  /\ k = 1 => send[t].pc = "idle"
                  /\ k > 1 =>
                        /\ send[t].pc = "awaitLog"
                        /\ send[t].k = k - 1
                        /\ send[t].agents = agents
                        /\ chatReqs[t] = {}
                        /\ \E entry \in logReqs[t] : entry.agentName = agents[k - 1]
                        /\ logReqs'[t] = {}
                        /\ Last(Messages(t, send[t].thread)).agentName = agents[k - 1]
                        /\ StoredNext(send[t].tid) = Messages(t, send[t].thread)
         /\ (send[t].pc = "awaitLog" /\ send'[t].pc = "idle") =>
               send[t].k = Len(send[t].agents)]_vars

\* one broadcast has run: five round trips are stored, the replies in AGENTS order
C10_Witness ==
    /\ send[1].pc = "idle"
    /\ nSends = 1
    /\ Len(Stored(activeThreadId[1])) = 2 * Len(AGENTS)
    /\ \A i \in 1..Len(AGENTS) :
          /\ Stored(activeThreadId[1])[2 * i - 1].role = "user"
          /\ Stored(activeThreadId[1])[2 * i].agentName = AGENTS[i]

\* C11: every thread store operation catches a storage failure and returns
\* normally: on a full store createNewThreadId and saveMessagesToThread return
\* without raising and leave the store as it was; getMessagesForThread on a
\* stored text that is not JSON returns the empty list without raising.
C11_StorageFailuresAreCaught ==
    [][/\ (call'.op \in {"create", "save"} /\ call'.full) =>
            (~call'.raised /\ localStorage' = localStorage)
       /\ (call'.op = "get" /\ call'.id \in DOMAIN localStorage
              /\ localStorage[call'.id] = CorruptText) =>
            (~call'.raised /\ call'.result = <<>>)]_vars

\* C12: for every prompt and every context, the empty one and none included,
\* the list sent upstream is the system preamble, then the context entries in
\* their order, then one user message with the prompt.
C12_UpstreamMessages ==
    call.op = "chat" =>
        LET context == ContextOf(call.body)
            m == call.messages
        IN /\ Len(m) = Len(context) + 2
           /\ m[1] = [role |-> "system", content |-> SYSTEM_PREAMBLE]
           /\ \A i \in 1..Len(context) : m[i + 1] = context[i]
           /\ m[Len(m)] = [role |-> "user", content |-> call.body.prompt]

\* a request with the empty context: the preamble is still sent first
C12_Witness ==
    /\ call.op = "chat"
    /\ "context" \in DOMAIN call.body
    /\ call.body.context = <<>>
    /\ Len(call.messages) = 2
    /\ call.messages[1].role = "system"

\* C13: the context of a chat request holds only the messages of the thread
\* before the current prompt, so the list the gateway sends upstream for it has
\* the current prompt once, as its last message.
C13_ContextIsPrior ==
    \A t \in Tabs : \A req \in chatReqs[t] :
        LET msgs == Messages(t, send[t].thread)
            prior == SubSeq(msgs, 1, Len(msgs) - 1)
            upstream == GatewayMessages(req.prompt, req.context)
            current == [role |-> "user", content |-> req.prompt]
        IN /\ req.context = SeqMap(contextEntry, prior)
           /\ Last(upstream) = current
           /\ Cardinality({i \in 1..Len(upstream) : upstream[i] = current})
                 = 1 + Cardinality({i \in 1..Len(prior) : contextEntry(prior[i]) = current})

\* the requests of the memory-log route that have been acknowledged
Acked(srv) == {i \in 1..Len(srv.reqs) : MemoryLogResponse(srv.reqs[i]).status = 200}

\* text stands in file as a line of its own
HasLine(file, text) ==
    \E k \in 0..(Len(file) - Len(text) - 1) :
        /\ k = 0 \/ SubSeq(file, k, k) = "\n"
        /\ SubSeq(file, k + 1, k + Len(text) + 1) = text \o "\n"

\* JSON.stringify of the records the requests bring, as a table
LogTexts == [entry \in LogEntries |-> stringifyLogEntry(entry)]

\* the lines a file has
CountLines(file) == Cardinality({k \in 1..Len(file) : SubSeq(file, k, k) = "\n"})

\* what the file of a day held when the server started
EarlierLogs(day) == {""} \cup (IF day = 1 THEN {OldLog} ELSE {})

\* C14: the log files only grow at their end; a step changes at most one
\* file, and only by putting the next bytes of the line of one request at the
\* end of the file of that request's day; and after n requests handled one
\* after another on one day, all acknowledged, that day's file is what it was
\* when the server started followed by their n JSON lines in request order,
\* n lines more, also when a line went to the disk in more than one write.
C14_OneLinePerRecord ==
    [][/\ \A path \in DOMAIN server.files :
            /\ path \in DOMAIN server'.files
            /\ IsPrefixOf(server.files[path], server'.files[path])
       /\ \A path \in DOMAIN server'.files :
            server'.files[path] # FileOf(server.files, path) =>
               \E i \in 1..Len(server.reqs) :
                  LET req == server.reqs[i] IN
                  /\ req.logPath = path
                  /\ req.pc = "appendFile"
                  /\ server'.reqs[i].written > req.written
                  /\ server'.files[path] =
                        FileOf(server.files, path)
                           \o SubSeq((LogTexts[req.entry] \o "\n"), req.written + 1,
                                     server'.reqs[i].written)
                  /\ \A q \in DOMAIN server'.files \ {path} :
                        server'.files[q] = FileOf(server.files, q)
       /\ LET reqs == server'.reqs
              n == Len(reqs)
          IN (/\ n > 0
              /\ \A i \in 1..n : /\ reqs[i].alone
                                  /\ i \in Acked(server')
                                  /\ reqs[i].day = reqs[1].day) =>
                LET file == FileOf(server'.files, logPath(reqs[1].day))
                    gained == join([i \in 1..n |-> (LogTexts[reqs[i].entry] \o "\n")], "")
                IN \E prev \in EarlierLogs(reqs[1].day) :
                      /\ file = prev \o gained
                      /\ CountLines(file) = CountLines(prev) + n
                      /\ \A i \in 1..n : HasLine(file, LogTexts[reqs[i].entry])]_vars

\* two records were posted one after another on day 1, on top of an older
\* line, the first written in two writes: the file has three lines
C14_Witness ==
    /\ Len(server.reqs) = 2
    /\ Acked(server) = {1, 2}
    /\ server.reqs[2].alone
    /\ server.reqs[1].entry # server.reqs[2].entry
    /\ server.reqs[1].day = 1 /\ server.reqs[2].day = 1
    /\ server.reqs[1].writes = 2
    /\ CountLines(FileOf(server.files, logPath(1))) = 3
    /\ IsPrefixOf(OldLog, FileOf(server.files, logPath(1)))

\* every request that has written to the file at path has written its whole
\* line in one write
WholeLines(srv, path) ==
    \A j \in 1..Len(srv.reqs) :
        (srv.reqs[j].logPath = path /\ srv.reqs[j].written > 0) =>
            /\ srv.reqs[j].writes = 1
            /\ srv.reqs[j].written = Len((LogTexts[srv.reqs[j].entry] \o "\n"))

\* C15 as stated: whenever a request is acknowledged, its line is in the file
\* named by the UTC date the server had when it took the request.
C15_AckedLineInFile ==
    \A i \in Acked(server) :
        HasLine(FileOf(server.files, server.reqs[i].logPath),
                LogTexts[server.reqs[i].entry])

\* C15, amended: a request is acknowledged with { status: 'Logged' } only once
\* the log directory exists and every byte of its line has been put, in order
\* and each time at the end, into the file named by the UTC date the server
\* had when it took the request; the acknowledgement comes when the handler
\* goes on after an append that has completed, and changes no file. The line
\* stands in the file as a line of its own when every request that has
\* written to that file wrote its whole line in one write; the partial writes
\* of requests that overlap or fail can tear it. A request whose mkdir or
\* append fails is answered with an error and never acknowledged.
C15_AckAfterAppend ==
    [][\A i \in 1..Len(server'.reqs) :
         LET req == server'.reqs[i] IN
         /\ i \in Acked(server') =>
               /\ MemoryLogResponse(req).body = [status |-> "Logged"]
               /\ LOGS_DIR \in server'.dirs
               /\ req.logPath = LOGS_DIR \o "/log_2025-06-0" \o ToString(req.day) \o ".json"
               /\ req.written = Len((LogTexts[req.entry] \o "\n"))
               /\ req.logPath \in DOMAIN server'.files
               /\ WholeLines(server', req.logPath) =>
                     HasLine(server'.files[req.logPath], LogTexts[req.entry])
         /\ i \in Acked(server') \ Acked(server) =>
               /\ server.reqs[i].pc = "appendFile"
               /\ server.reqs[i].fs = "resolved"
               /\ server'.files = server.files
         /\ (i <= Len(server.reqs) /\ req.written # server.reqs[i].written) =>
               /\ LOGS_DIR \in server.dirs
               /\ req.written > server.reqs[i].written
               /\ server'.files[req.logPath] =
                     FileOf(server.files, req.logPath)
                        \o SubSeq((LogTexts[req.entry] \o "\n"), server.reqs[i].written + 1, req.written)
         /\ (i <= Len(server.reqs) /\ server.reqs[i].fs = "rejected"
               /\ req # server.reqs[i]) =>
               MemoryLogResponse(req).status = 500
         /\ (i <= Len(server.reqs) /\ MemoryLogResponse(server.reqs[i]).status = 500) =>
               MemoryLogResponse(req).status = 500]_vars

\* a request taken on day 1 is acknowledged, its line written in two writes
\* and in the file of day 1, while the server is in day 2 already
C15_Witness ==
    /\ server.day = 2
    /\ 1 \in Acked(server)
    /\ server.reqs[1].day = 1
    /\ server.reqs[1].writes = 2
    /\ HasLine(FileOf(server.files, logPath(1)), LogTexts[server.reqs[1].entry])
    /\ logPath(2) \notin DOMAIN server.files

\* C16: the audit route answers every thread id, in every state, with HTTP 501
\* and an error body, and the request changes nothing.
C16_AuditNotImplemented ==
    [][(call'.op = "audit" /\ call' # call) =>
          /\ call'.response.status = 501
          /\ "error" \in DOMAIN call'.response.body
          /\ UNCHANGED <<server, now, localStorage, tabVars>>]_vars

\* the audit of an id that is no thread id, asked while a log request is in hand
C16_Witness ==
    /\ call.op = "audit"
    /\ call.threadId = "x"
    /\ call.response.status = 501
    /\ Len(server.reqs) > 0
    /\ server.files # <<>>

\* the place in an export, counted from the end of the title, at which the
\* section of message i starts when every message before it has one section
RECURSIVE SectionStart(_, _)
SectionStart(messages, i) ==
    IF i = 1 THEN 1
    ELSE SectionStart(messages, i - 1)
           + Len("### ") + Len(exportHeading(messages[i - 1])) + 1
           + Len(messages[i - 1].content) + 1 + Len(EXPORT_SEPARATOR)

\* C17: the export holds, after its title, exactly one section per message, in
\* message order: at the place of section i stands a heading line and then the
\* content of message i, sections are separated by the separator, and nothing
\* follows the last section; for the empty list the export is the title alone.
C17_OneSectionPerMessage ==
    call.op = "export" =>
        LET messages == call.messages
            n == Len(messages)
            title == Len(call.md) -
                     (IF n = 0 THEN 0
                      ELSE SectionStart(messages, n) - 1 + Len("### ")
                             + Len(exportHeading(messages[n])) + 1
                             + Len(messages[n].content) + 1)
            at(i) == title + SectionStart(messages, i)
        IN /\ title > 0
           /\ SubSeq(call.md, 1, 2) = "# "
           /\ SubSeq(call.md, title - 1, title) = "\n\n"
           /\ \A i \in 1..n :
                 LET content == at(i) + Len("### ") + Len(exportHeading(messages[i])) + 1
                 IN /\ SubSeq(call.md, at(i), at(i) + 3) = "### "
                    /\ SubSeq(call.md, content, content + Len(messages[i].content) - 1)
                          = messages[i].content
                    /\ SubSeq(call.md, content + Len(messages[i].content),
                                       content + Len(messages[i].content)) = "\n"
                    /\ i < n => SubSeq(call.md, content + Len(messages[i].content) + 1,
                                       at(i + 1) - 1) = EXPORT_SEPARATOR
           /\ n = 0 => SubSeq(call.md, 1, Len("# Chat Thread Log: ")) = "# Chat Thread Log: "

\* an export of two messages, the second an assistant message
C17_Witness ==
    /\ call.op = "export"
    /\ Len(call.messages) = 2
    /\ call.messages[1].role = "user"
    /\ call.messages[2].role = "assistant"
    /\ call.id = THREAD_PREFIX \o "1"

\* the ids getAllThreadIds returns on a store, whatever the order of its keys
ListedIds(store) ==
    UNION {Range(getAllThreadIds(keyOrder)) : keyOrder \in Enumerations(DOMAIN store)}

\* C18: no step of the chat view (mount, thread creation, selection, send,
\* broadcast, export, analysis, and the settling of their requests) removes a
\* thread key from the store: every prefixed key stored before the step is
\* stored after it, and every id getAllThreadIds returned before the step it
\* returns after it.
C18_ThreadKeysNeverRemoved ==
    [][ /\ \A key \in DOMAIN localStorage :
             startsWith(key, THREAD_PREFIX) => key \in DOMAIN localStorage'
        /\ ListedIds(localStorage) \subseteq ListedIds(localStorage') ]_vars

\* after a thread creation and a send: two threads are stored, one of them
\* with a prompt and its reply, and the send is over
C18_Witness ==
    /\ Cardinality(ListedIds(localStorage)) = 2
    /\ \E id \in ListedIds(localStorage) : Len(Stored(id)) >= 2
    /\ nCreates = 1
    /\ ~loading[1]

\* C19: getAllThreadIds returns exactly the keys of the store that start with
\* the thread prefix, each once: none without the prefix, none with it left out.
C19_ExactlyThePrefixedKeys ==
    call.op = "list" =>
        /\ \A key \in DOMAIN localStorage :
              (Len(key) >= Len(THREAD_PREFIX) /\ SubSeq(key, 1, Len(THREAD_PREFIX)) = THREAD_PREFIX)
                 <=> (\E i \in 1..Len(call.result) : call.result[i] = key)
        /\ \A i \in 1..Len(call.result) : call.result[i] \in DOMAIN localStorage
        /\ \A i, j \in 1..Len(call.result) : call.result[i] = call.result[j] => i = j

\* two threads are listed from a store that also holds a key of another feature
C19_Witness ==
    /\ call.op = "list"
    /\ Len(call.result) = 2
    /\ "notes" \in DOMAIN localStorage
    /\ Cardinality(DOMAIN localStorage) = 3

\* C20: the content the gateway returns is the text of the first upstream
\* choice when there is one, and the empty string when the completion has no
\* choice or its first choice has no text.
C20_FirstChoiceOrEmpty ==
    call.op = "chat" =>
        LET choices == call.upstream.choices
            hasText == /\ Len(choices) > 0
                       /\ "message" \in DOMAIN choices[1]
                       /\ "content" \in DOMAIN choices[1].message
        IN /\ hasText => call.content = choices[1].message.content
           /\ ~hasText => call.content = ""

\* two choices came back: the content is the text of the first
C20_Witness ==
    /\ call.op = "chat"
    /\ Len(call.upstream.choices) = 2
    /\ call.content = "r"
    /\ call.upstream.choices[2].message.content = "x"

\* the places at which pattern stands in text
Places(text, pattern) ==
    {i \in 1..(Len(text) - Len(pattern) + 1) : SubSeq(text, i, i + Len(pattern) - 1) = pattern}

\* the i-th smallest member of a set of numbers
RECURSIVE Nth(_, _)
Nth(S, i) == IF i = 1 THEN Min(S) ELSE Nth(S \ {Min(S)}, i - 1)

\* the first 50 characters of a text
Excerpt(text) == IF Len(text) <= 50 THEN text ELSE SubSeq(text, 1, 50)

\* C21: the summary runIntrospectiveAnalysis returns is a JSON array with one
\* object per pair, in the order of the pairs: the i-th object holds the first
\* 50 characters of the i-th prompt as its intent excerpt and the first 50
\* characters of the i-th response as its reasoning excerpt; the action tag
\* "reflect" stands once in every object; for no pairs the array is empty.
C21_OneSummaryPerPair ==
    call.op = "analysis" =>
        LET text == call.summary
            n == Len(call.thread)
            objects == Places(text, "{\"intent\":")
            tags == Places(text, "\"action\":\"reflect\"")
        IN /\ SubSeq(text, 1, 1) = "["
           /\ SubSeq(text, Len(text), Len(text)) = "]"
           /\ Cardinality(objects) = n
           /\ Cardinality(tags) = n
           /\ n = 0 => text = "[]"
           /\ \A i \in 1..n :
                 LET at == Nth(objects, i)
                     end == IF i < n THEN Nth(objects, i + 1) - 1 ELSE Len(text)
                     intent == quote("Analyzed: " \o Excerpt(call.thread[i].prompt) \o "...")
                     reasoning == quote("Response: " \o Excerpt(call.thread[i].response) \o "...")
                     head == "{\"intent\":" \o intent \o ",\"reasoning\":" \o reasoning
                               \o ",\"aslOutput\":{"
                 IN /\ SubSeq(text, at, at + Len(head) - 1) = head
                    /\ Nth(tags, i) \in (at + Len(head))..end

\* two pairs are analysed, the first with a prompt longer than the excerpt and
\* the second with a response of exactly its length
C21_Witness ==
    /\ call.op = "analysis"
    /\ Len(call.thread) = 2
    /\ Len(call.thread[1].prompt) > 50
    /\ Len(call.thread[2].response) = 50
    /\ call.thread[1].response = ""

\* the thread keys of a store
ThreadKeys(store) == {key \in DOMAIN store : startsWith(key, THREAD_PREFIX)}

\* the step in which the mount effect of tab t ends
MountStep(t) == mount[t].pc = "scanned" /\ mount'[t].pc = "mounted"

\* C22: a thread key comes into the store only in a mount step on a store
\* without thread keys or in a new-thread action. A mount step on a store
\* without thread keys creates one thread, empty, listed alone and active; a
\* mount step on a store with thread keys leaves the store as it is, lists
\* every stored thread once with the messages stored for it, and makes the
\* first id of the listing it read active.
C22_MountCreatesIffNoThread ==
    [][ /\ ThreadKeys(localStorage') # ThreadKeys(localStorage) =>
             \/ MountStep(1) /\ ThreadKeys(localStorage) = {}
             \/ nCreates' = nCreates + 1
        /\ MountStep(1) =>
             IF ThreadKeys(localStorage) = {}
             THEN /\ Cardinality(ThreadKeys(localStorage')) = 1
                  /\ \A key \in DOMAIN localStorage : localStorage'[key] = localStorage[key]
                  /\ Len(threads'[1]) = 1
                  /\ threads'[1][1].id \in ThreadKeys(localStorage')
                  /\ MessagesNext(1, threads'[1][1]) = <<>>
                  /\ StoredNext(threads'[1][1].id) = <<>>
                  /\ activeThreadId'[1] = threads'[1][1].id
             ELSE /\ localStorage' = localStorage
                  /\ Len(threads'[1]) = Cardinality(ThreadKeys(localStorage))
                  /\ {e.id : e \in Range(threads'[1])} = ThreadKeys(localStorage)
                  /\ \A e \in Range(threads'[1]) : MessagesNext(1, e) = Stored(e.id)
                  /\ activeThreadId'[1] = mount[1].ids[1] ]_vars

\* the tab has been opened on a store with two threads: both are listed, the
\* stored exchange is loaded, and nothing has been created
C22_Witness ==
    /\ mount[1].pc = "mounted"
    /\ nCreates = 0
    /\ nSends = 0
    /\ Len(threads[1]) = 2
    /\ Cardinality(ThreadKeys(localStorage)) = 2
    /\ \E e \in Range(threads[1]) : Len(Messages(1, e)) = 2

\* the ids of the in-memory thread list of tab t
ListIds(t) == {e.id : e \in Range(threads[t])}

\* C23: once the mount effect has ended, the active thread id is the id of an
\* entry of the in-memory thread list.
C23_ActiveThreadIsListed ==
    mount[1].pc = "mounted" => activeThreadId[1] \in ListIds(1)

\* C24: no step takes an entry out of the in-memory thread list: every id
\* listed before the step is listed after it.
C24_ListNeverLosesEntry ==
    [][\A id \in ListIds(1) : id \in {e.id : e \in Range(threads'[1])}]_vars

\* C25: a send works on the thread that is active when it starts, whatever the
\* user selects or creates meanwhile: the id it holds is the id active at its
\* start and stays the same until it ends; the reply is appended to the
\* messages of that thread and logged with that id; the save writes that
\* thread's messages under that id and leaves every other key of the store as
\* it was.
C25_ReplyGoesToStartingThread ==
    [][ /\ (send[1].pc = "idle" /\ send'[1].pc = "awaitChat") =>
              send'[1].tid = activeThreadId[1]
        /\ (send[1].pc \in {"awaitChat", "awaitLog"}
              /\ send'[1].pc \in {"awaitChat", "awaitLog"}) =>
              /\ send'[1].tid = send[1].tid
              /\ send'[1].thread.id = send[1].tid
        /\ (send[1].pc = "awaitChat" /\ send'[1].pc = "awaitLog") =>
              /\ Len(MessagesNext(1, send[1].thread)) = Len(Messages(1, send[1].thread)) + 1
              /\ IsPrefixOf(Messages(1, send[1].thread), MessagesNext(1, send[1].thread))
              /\ Last(MessagesNext(1, send[1].thread)).role = "agent"
              /\ \E e \in logReqs'[1] :
                    /\ logReqs'[1] = logReqs[1] \cup {e}
                    /\ e.threadId = send[1].tid
                    /\ e.response = Last(MessagesNext(1, send[1].thread)).content
              /\ localStorage' = localStorage
        /\ (send[1].pc = "awaitLog" /\ send'[1].pc \in {"idle", "awaitChat"}) =>
              /\ StoredNext(send[1].tid) = Messages(1, send[1].thread)
              /\ DOMAIN localStorage' = DOMAIN localStorage \cup {send[1].tid}
              /\ \A key \in DOMAIN localStorage \ {send[1].tid} :
                    localStorage'[key] = localStorage[key] ]_vars

\* a send has ended and its reply is stored under a thread that is no longer
\* the active one
C25_Witness ==
    /\ nSends = 1
    /\ send[1].pc = "idle"
    /\ \E id \in ThreadKeys(localStorage) :
          /\ id # activeThreadId[1]
          /\ Len(Stored(id)) >= 2
          /\ Last(Stored(id)).role = "agent"
          /\ Last(Stored(id)).timestamp >= 3

\* C26: every send ends: whenever loading is true it is false at some later
\* time, given that every network call settles.
C26_EverySendEnds == loading[1] ~> ~loading[1]

\* the requests of the send of tab t in flight
SendRequests(t) == chatReqs[t] \cup logReqs[t]

\* C27: a send starts only when loading is false and no send is in progress;
\* while a send is in progress loading is true; at most one request of a send
\* is in flight, and one is in flight exactly while a send awaits it.
C27_OneSendAtATime ==
    [][ /\ nSends' = nSends + 1 =>
              /\ ~loading[1]
              /\ send[1].pc = "idle"
              /\ SendRequests(1) = {}
              /\ loading'[1]
              /\ send'[1].pc = "awaitChat"
        /\ send[1].pc \in {"awaitChat", "awaitLog"} => loading[1]
        /\ Cardinality(SendRequests(1)) <= 1
        /\ send[1].pc = "awaitChat" <=> chatReqs[1] # {}
        /\ send[1].pc = "awaitLog" <=> logReqs[1] # {} ]_vars

\* a second send is in progress, after the first one has ended
C27_Witness ==
    /\ nSends = 2
    /\ loading[1]
    /\ send[1].pc = "awaitChat"
    /\ Cardinality(chatReqs[1]) = 1
    /\ \E e \in Range(threads[1]) : Len(Messages(1, e)) >= 3

\* a message list that alternates user message and agent reply, user first
Alternates(messages) ==
    \A i \in 1..Len(messages) : messages[i].role = (IF i % 2 = 1 THEN "user" ELSE "agent")

\* the completed exchanges of a message list, each once, in order
Exchanges(messages) ==
    [k \in 1..(Len(messages) \div 2) |->
        [prompt |-> messages[2 * k - 1].content, response |-> messages[2 * k].content]]

\* C28: every message list in memory and every stored message list alternates
\* user message and agent reply, starting with a user message, and a stored
\* list ends with a reply; so the pairs handleAnalysis takes from a list are
\* its completed exchanges, each once, and the summary an analysis logs is the
\* summary of the completed exchanges of the active thread.
C28_ListsAlternate ==
    [][ /\ \A r \in DOMAIN heap[1] :
              /\ Alternates(heap[1][r])
              /\ analysisPairs(heap[1][r]) = Exchanges(heap[1][r])
        /\ \A id \in ThreadKeys(localStorage) :
              /\ Alternates(Stored(id))
              /\ Len(Stored(id)) % 2 = 0
        /\ \A e \in BagToSet(analysisReqs'[1]) :
              CopiesIn(e, analysisReqs'[1]) > CopiesIn(e, analysisReqs[1]) =>
                 \E thread \in Range(threads[1]) :
                    /\ thread.id = activeThreadId[1]
                    /\ e.aslSummary = runIntrospectiveAnalysis(Exchanges(Messages(1, thread))) ]_vars

\* a send has been answered, the next one has failed, and an analysis of the
\* thread is being logged: one exchange, and a prompt without reply after it
C28_Witness ==
    /\ send[1].pc = "rejected"
    /\ \E e \in AnalysisLogs(1) : e.aslSummary # "[]"
    /\ \E r \in DOMAIN heap[1] : Len(heap[1][r]) = 3

\* C29: when a send ends, the in-memory thread list has an entry for the
\* send's thread id, and the messages of that entry are the messages stored
\* under that id.
C29_StoredEqualsListed ==
    [][(send[1].pc = "awaitLog" /\ send'[1].pc = "idle") =>
          \E e \in Range(threads'[1]) :
              /\ e.id = send[1].tid
              /\ MessagesNext(1, e) = StoredNext(send[1].tid)]_vars

\* C30: a save under an id that is empty or lacks the prefix leaves the store
\* as it was, every key and every value; a read with such an id returns the
\* empty list, also when the store has a key of that name, and leaves the
\* store as it was.
C30_InvalidIdHasNoEffect ==
    [][ /\ (call'.op = "save" /\ ~ValidId(call'.id)) => localStorage' = localStorage
        /\ (call'.op = "get" /\ ~ValidId(call'.id)) =>
              /\ call'.result = <<>>
              /\ localStorage' = localStorage ]_vars

\* a read with the name of a stored key that is no thread id, on a store that
\* also holds a thread with messages, has returned the empty list
C30_Witness ==
    /\ call.op = "get"
    /\ call.id = "notes"
    /\ "notes" \in DOMAIN localStorage
    /\ call.result = <<>>
    /\ \E id \in ThreadKeys(localStorage) : Len(Stored(id)) > 0

====
